---- MODULE Spec2Model ----
(***************************************************************************)
(* Booking store of TECHXPO (Dashboard/schedule_logic.py): confirmed       *)
(* bookings, soft holds and the process-wide bookings version, together    *)
(* with the tools of the session orchestrator (function_calling_def.py)    *)
(* that write to the store.                                                *)
(*                                                                         *)
(* Text values on which the code performs conversions (department names,   *)
(* slot times, names, phone numbers) are sequences of one-character        *)
(* strings, so that strip(), split(), join() and title() are computed and  *)
(* not assumed.  A date is a text of one token.  Values the code only      *)
(* compares (hospital codes, doctor names, department codes, session ids)  *)
(* are plain strings.                                                      *)
(***************************************************************************)
EXTENDS Integers, Sequences, FiniteSets, TLC

VARIABLES
    bookings,   \* rows of table bookings
    holds,      \* rows of table holds
    version,    \* _BOOKINGS_VERSION
    now,        \* time.time(), in seconds
    last,       \* the call that made the last step and what it returned
    identity_state, \* per session: the identity_state dict of build_all_tools
    shared,     \* per session: the shared dict of build_all_tools
    visits,     \* rows of table visits (storage.py)
    invocation, \* per session: where each schedule_appointment coroutine stands
    active_runs, \* per session: the _run_booking tasks created and not finished
    gate_pc,    \* ReplyGate: where each say call stands
    gate_lock,  \* ReplyGate._lock: the say call that holds it, NULL when free
    gate_waiters, \* ReplyGate._lock: the say calls waiting, first come first
    gate_attempts, \* ReplyGate: generate_reply calls issued by each say call
    schedule_data, \* the schedule document _gather_schedule built last, None before
    result_dict, \* what _stage2_build_booking returned last, None before
    finalize_thread, \* per session: the FinalizeThread of finalize_visit
    teardown,   \* per session: _late_close not scheduled, scheduled, closed
    availability, \* what _compute_availability returned last, None before
    stored_conf, \* history: the confidence under which each draft value was stored
    state, \* SessionBuf of each session: the transcript lines and the item ids seen
    closing, \* the closing flag of the entrypoint that on_item_added reads
    _DB_LOCK,   \* the thread inside "with _DB_LOCK", NULL when the lock is free
    inserted,   \* the row the lock holder has committed and not yet counted
    reader,     \* the request the dashboard server is answering
    client,     \* the last snapshot the polling client got, per endpoint
    bumped      \* history: each inserted row with the version its insert bumped to

storeVars == <<bookings, holds, version, now>>
taskVars == <<invocation, active_runs>>
kioskVars == <<gate_pc, gate_lock, gate_waiters, gate_attempts>>
plannerVars == <<schedule_data, result_dict>>
finalizeVars == <<finalize_thread, teardown>>
sessVars == <<identity_state, shared, visits, invocation, active_runs,
              gate_pc, gate_lock, gate_waiters, gate_attempts,
              schedule_data, result_dict, finalize_thread, teardown,
              availability,
              stored_conf,
              state, closing>>
dashVars == <<availability>>
draftVars == <<stored_conf>>
bufVars == <<state, closing>>
rwVars == <<_DB_LOCK, inserted, reader, client, bumped>>
vars == <<bookings, holds, version, now, last, identity_state, shared, visits,
          invocation, active_runs, gate_pc, gate_lock, gate_waiters, gate_attempts,
          schedule_data, result_dict, finalize_thread, teardown,
          availability,
          stored_conf,
          state, closing,
          _DB_LOCK, inserted, reader, client, bumped>>

\* Python None / SQL NULL where the value is otherwise a plain string
NULL == "NULL"

\* Python None where the value is otherwise a text or a dict; the code tests
\* such values for truthiness only, which None and the empty text share
None == <<>>

----------------------------------------------------------------------------
(* Bounds of the model *)

\* the clock stops here
MaxTime == 70

----------------------------------------------------------------------------
(* Text helpers: str.strip, str.split, str.join, str.title *)

IsSpace(c) == c = " "

Upper(c) ==
    CASE c = "t" -> "T" [] c = "a" -> "A" [] c = "i" -> "I"
      [] c = "m" -> "M" [] c = "u" -> "U" [] OTHER -> c

Lower(c) ==
    CASE c = "T" -> "t" [] c = "A" -> "a" [] c = "I" -> "i"
      [] c = "M" -> "m" [] c = "U" -> "u" [] OTHER -> c

IsCased(c) == Upper(c) # c \/ Lower(c) # c

RECURSIVE lstrip(_)
lstrip(s) == IF s # <<>> /\ IsSpace(Head(s)) THEN lstrip(Tail(s)) ELSE s

RECURSIVE rstrip(_)
rstrip(s) ==
    IF s # <<>> /\ IsSpace(s[Len(s)]) THEN rstrip(SubSeq(s, 1, Len(s) - 1)) ELSE s

strip(s) == rstrip(lstrip(s))

\* length of the leading run of non-space characters
RECURSIVE WordLen(_)
WordLen(s) == IF s = <<>> \/ IsSpace(Head(s)) THEN 0 ELSE 1 + WordLen(Tail(s))

\* s.split(): the words between runs of whitespace
RECURSIVE split(_)
split(s) ==
    LET t == lstrip(s) IN
    IF t = <<>> THEN <<>>
    ELSE LET n == WordLen(t) IN <<SubSeq(t, 1, n)>> \o split(SubSeq(t, n + 1, Len(t)))

\* sep.join(words)
\* str.split(" "): the pieces between single spaces
RECURSIVE split_sep(_)
split_sep(s) ==
    IF \A i \in 1..Len(s) : s[i] # " "
    THEN <<s>>
    ELSE LET i == CHOOSE k \in 1..Len(s) : s[k] = " " /\ \A j \in 1..(k - 1) : s[j] # " "
         IN <<SubSeq(s, 1, i - 1)>> \o split_sep(SubSeq(s, i + 1, Len(s)))

\* re.sub(r"\s+", " ", s)
RECURSIVE collapse_spaces(_)
collapse_spaces(s) ==
    IF s = <<>> THEN <<>>
    ELSE IF IsSpace(Head(s)) THEN <<" ">> \o collapse_spaces(lstrip(s))
    ELSE <<Head(s)>> \o collapse_spaces(Tail(s))

RECURSIVE join(_, _)
join(sep, words) ==
    IF words = <<>> THEN <<>>
    ELSE IF Len(words) = 1 THEN words[1]
    ELSE words[1] \o sep \o join(sep, Tail(words))

\* s.title(): a cased character is upper-cased unless it follows a cased one
title(s) ==
    [i \in 1..Len(s) |->
        IF i > 1 /\ IsCased(s[i - 1]) THEN Lower(s[i]) ELSE Upper(s[i])]

_normalize_department(s) == title(join(<<" ">>, split(strip(s))))

----------------------------------------------------------------------------
(* Slot grid *)

WORK_START == 7 * 60 + 40
WORK_END == 16 * 60 + 40
SLOT_MINUTES == 20

Digit(n) ==
    CASE n = 0 -> "0" [] n = 1 -> "1" [] n = 2 -> "2" [] n = 3 -> "3"
      [] n = 4 -> "4" [] n = 5 -> "5" [] n = 6 -> "6" [] n = 7 -> "7"
      [] n = 8 -> "8" [] n = 9 -> "9"

\* strftime("%H:%M") of a minute of the day
strftime_HM(m) ==
    << Digit((m \div 60) \div 10), Digit((m \div 60) % 10), ":",
       Digit((m % 60) \div 10), Digit((m % 60) % 10) >>

RECURSIVE generate_slots(_, _, _)
generate_slots(cur, end, step_minutes) ==
    IF cur <= end
    THEN <<strftime_HM(cur)>> \o generate_slots(cur + step_minutes, end, step_minutes)
    ELSE <<>>

ALL_SLOTS == generate_slots(WORK_START, WORK_END, SLOT_MINUTES)

ALLOWED_SLOT_SET == {ALL_SLOTS[i] : i \in 1..Len(ALL_SLOTS)}

----------------------------------------------------------------------------
(* Hospital catalog: the code-keyed JSON of one hospital.  Doctor BsA works *)
(* in two departments, BsB in one.                                          *)

TaiMui == <<"T", "a", "i", " ", "M", "u", "i">>
Mat == <<"M", "a", "t">>

CatalogFiles ==
    "H1" :> ( "TMH" :> [name |-> TaiMui, doctors |-> {"BsA", "BsB"}]
           @@ "MAT" :> [name |-> Mat, doctors |-> {"BsA"}] )

\* departments_by_code and the legacy map {normalized display name -> doctors}
_build_hospital_meta(hospital_code) ==
    LET raw == CatalogFiles[hospital_code]
        names == {_normalize_department(raw[c].name) :
                     c \in {d \in DOMAIN raw : raw[d].doctors # {}}}
    IN [ departments_by_code |-> raw,
         departments |->
            [n \in names |->
                LET c == CHOOSE d \in DOMAIN raw :
                            raw[d].doctors # {} /\ _normalize_department(raw[d].name) = n
                IN raw[c].doctors] ]

\* _HOSPITAL_META_CACHE: the catalog files do not change, the meta is built once
_HOSPITAL_META_CACHE == [h \in DOMAIN CatalogFiles |-> _build_hospital_meta(h)]

\* a record with the two maps, or both maps empty where the code returns None
get_hospital_meta(hospital_code) ==
    IF hospital_code \in DOMAIN CatalogFiles
    THEN _HOSPITAL_META_CACHE[hospital_code]
    ELSE [departments_by_code |-> <<>>, departments |-> <<>>]

\* {dep -> doctors} of the requested normalized names the hospital has
get_doctors_for_departments(hospital_code, departments) ==
    LET meta == get_hospital_meta(hospital_code) IN
    IF meta.departments = <<>> THEN <<>>
    ELSE LET dep_set == {_normalize_department(d) : d \in departments}
         IN [dep \in DOMAIN meta.departments \cap dep_set |-> meta.departments[dep]]

\* {code -> doctors} of the requested codes the hospital has
get_doctors_for_department_codes(hospital_code, department_codes) ==
    LET meta == get_hospital_meta(hospital_code) IN
    IF meta.departments_by_code = <<>> THEN <<>>
    ELSE LET by_code == meta.departments_by_code
         IN [code \in DOMAIN by_code \cap department_codes |-> by_code[code].doctors]

\* the doctor check shared by book_slot and create_hold: code first, then name
DoctorInDepartment(hospital_code, dep_norm, doctor_name, department_code) ==
    LET code_map == get_doctors_for_department_codes(hospital_code, {department_code})
        docs_map == get_doctors_for_departments(hospital_code, {dep_norm})
    IN \/ /\ department_code # NULL
          /\ department_code \in DOMAIN code_map
          /\ doctor_name \in code_map[department_code]
       \/ /\ dep_norm \in DOMAIN docs_map
          /\ doctor_name \in docs_map[dep_norm]

----------------------------------------------------------------------------
(* The texts callers pass.  What strip() and _normalize_department() make of a   *)
(* text depends on the text alone, so each is computed once and looked up.      *)

Date0 == <<"2025-01-15">>
S0800 == <<"0", "8", ":", "0", "0">>
Padded0800 == <<" ">> \o S0800
OffGrid == <<"0", "8", ":", "1", "0">>
S0820 == <<"0", "8", ":", "2", "0">>
taiMuiTyped == <<" ", "t", "a", "i", " ", " ", "m", "u", "i">>

DepartmentTexts == {TaiMui, taiMuiTyped, Mat}
SlotTexts == {S0800, Padded0800, OffGrid, S0820}

Normalized == [d \in DepartmentTexts |-> _normalize_department(d)]
Stripped == [t \in SlotTexts |-> strip(t)]

----------------------------------------------------------------------------
(* Tables *)

\* mutant: the department is part of the bookings key
bookings_pk_with_department(r) ==
    <<r.hospital_code, r.department, r.doctor_name, r.date, r.slot_time>>

\* PRIMARY KEY of table bookings
bookings_pk(r) == <<r.hospital_code, r.doctor_name, r.date, r.slot_time>>

\* PRIMARY KEY of table holds
holds_pk(r) == <<r.hospital_code, r.department, r.doctor_name, r.date, r.slot_time>>

\* the WHERE clause used by every query on holds and by create_hold on bookings
SameDeptKey(r, hospital_code, dep_norm, doctor_name, date, slot_time) ==
    /\ r.hospital_code = hospital_code
    /\ r.department = dep_norm
    /\ r.doctor_name = doctor_name
    /\ r.date = date
    /\ r.slot_time = slot_time

\* mutant: the counter is not incremented
_bump_bookings_version_forgotten(v) == v

_bump_bookings_version(v) == v + 1

get_bookings_version == version

----------------------------------------------------------------------------
(* Store operations.  Each takes the tables it reads and returns its        *)
(* (ok, message) together with the tables as the call leaves them.          *)

\* mutant: a hold never expires
Expired_never(expires_at, t) == FALSE

\* mutant: a hold is expired from the instant of its expiry on
Expired_at_instant(expires_at, t) == expires_at <= t

\* a hold row is past its expiry at time t (the test of both DELETE sweeps)
Expired(expires_at, t) == expires_at < t

\* TTL of a new hold
HoldTTL(ttl_seconds) == IF ttl_seconds > 60 THEN ttl_seconds ELSE 60

\* mutant: INSERT OR REPLACE instead of INSERT: a taken slot is booked again
book_slot_or_replace(bk, ver, hospital_code, department, doctor_name, date, slot_time_raw, department_code) ==
    LET slot_time == Stripped[slot_time_raw]
        dep_norm == Normalized[department]
        row == [hospital_code |-> hospital_code, department |-> dep_norm,
                doctor_name |-> doctor_name, date |-> date, slot_time |-> slot_time,
                department_code |-> department_code]
    IN IF slot_time \notin ALLOWED_SLOT_SET
       THEN [ok |-> FALSE, msg |-> "invalid_slot_time", bookings |-> bk, version |-> ver]
       ELSE IF ~DoctorInDepartment(hospital_code, dep_norm, doctor_name, department_code)
       THEN [ok |-> FALSE, msg |-> "doctor_not_found_in_department",
             bookings |-> bk, version |-> ver]
       ELSE [ok |-> TRUE, msg |-> "booked",
             bookings |-> {r \in bk : bookings_pk(r) # bookings_pk(row)} \cup {row},
             version |-> _bump_bookings_version(ver)]

book_slot(bk, ver, hospital_code, department, doctor_name, date, slot_time_raw, department_code) ==
    LET slot_time == Stripped[slot_time_raw]
        dep_norm == Normalized[department]
        row == [hospital_code |-> hospital_code, department |-> dep_norm,
                doctor_name |-> doctor_name, date |-> date, slot_time |-> slot_time,
                department_code |-> department_code]
    IN IF slot_time \notin ALLOWED_SLOT_SET
       THEN [ok |-> FALSE, msg |-> "invalid_slot_time", bookings |-> bk, version |-> ver]
       ELSE IF ~DoctorInDepartment(hospital_code, dep_norm, doctor_name, department_code)
       THEN [ok |-> FALSE, msg |-> "doctor_not_found_in_department",
             bookings |-> bk, version |-> ver]
       ELSE IF \E r \in bk : bookings_pk(r) = bookings_pk(row)
       THEN [ok |-> FALSE, msg |-> "already_booked", bookings |-> bk, version |-> ver]
       ELSE [ok |-> TRUE, msg |-> "booked", bookings |-> bk \cup {row},
             version |-> _bump_bookings_version(ver)]

create_hold(bk, hd, t, hospital_code, department, doctor_name, date, slot_time_raw, session_id, ttl_seconds, department_code) ==
    LET slot_time == Stripped[slot_time_raw]
        dep_norm == Normalized[department]
        exp == t + HoldTTL(ttl_seconds)
        swept == {r \in hd : ~Expired(r.expires_at, t)}
        row == [hospital_code |-> hospital_code, department |-> dep_norm,
                doctor_name |-> doctor_name, date |-> date, slot_time |-> slot_time,
                session_id |-> session_id, held_at |-> t, expires_at |-> exp,
                department_code |-> department_code]
    IN IF slot_time \notin ALLOWED_SLOT_SET
       THEN [ok |-> FALSE, msg |-> "invalid_slot_time", holds |-> hd]
       ELSE IF ~DoctorInDepartment(hospital_code, dep_norm, doctor_name, department_code)
       THEN [ok |-> FALSE, msg |-> "doctor_not_found_in_department", holds |-> hd]
       ELSE IF \E r \in bk : SameDeptKey(r, hospital_code, dep_norm, doctor_name, date, slot_time)
       THEN [ok |-> FALSE, msg |-> "already_booked", holds |-> swept]
       ELSE IF \E r \in swept :
                  /\ SameDeptKey(r, hospital_code, dep_norm, doctor_name, date, slot_time)
                  /\ r.session_id # session_id
       THEN [ok |-> FALSE, msg |-> "held_by_other", holds |-> swept]
       ELSE [ok |-> TRUE, msg |-> "held",
             holds |-> {r \in swept : holds_pk(r) # holds_pk(row)} \cup {row}]

\* mutant: every hold is deleted, whoever owns it
cancel_holds_for_session_all(hd, session_id) ==
    IF session_id = NULL \/ session_id = "" THEN hd ELSE {}

\* mutant: no hold is deleted
cancel_holds_for_session_none(hd, session_id) == hd

cancel_holds_for_session(hd, session_id) ==
    IF session_id = NULL \/ session_id = ""
    THEN hd
    ELSE {r \in hd : r.session_id # session_id}

promote_hold_to_booking(bk, hd, ver, t, session_id, hospital_code, department, doctor_name, date, slot_time_raw, department_code) ==
    LET slot_time == Stripped[slot_time_raw]
        dep_norm == Normalized[department]
        found == {r \in hd : SameDeptKey(r, hospital_code, dep_norm, doctor_name, date, slot_time)}
        others == hd \ found
        same == [ok |-> FALSE, msg |-> "", bookings |-> bk, holds |-> hd, version |-> ver]
    IN IF found = {}
       THEN [same EXCEPT !.msg = "no_hold"]
       ELSE LET hold == CHOOSE r \in found : TRUE
                final_code == IF department_code # NULL THEN department_code
                              ELSE hold.department_code
                row == [hospital_code |-> hospital_code, department |-> dep_norm,
                        doctor_name |-> doctor_name, date |-> date, slot_time |-> slot_time,
                        department_code |-> final_code]
            IN IF hold.session_id # session_id
               THEN [same EXCEPT !.msg = "held_by_other"]
               ELSE IF Expired(hold.expires_at, t)
               THEN [same EXCEPT !.msg = "hold_expired", !.holds = others]
               ELSE IF \E r \in bk : bookings_pk(r) = bookings_pk(row)
               THEN [same EXCEPT !.msg = "already_booked"]
               ELSE [ok |-> TRUE, msg |-> "booked", bookings |-> bk \cup {row},
                     holds |-> others, version |-> _bump_bookings_version(ver)]

----------------------------------------------------------------------------
(* Inputs of the calls *)

\* name_map of backfill_department_codes: normalized display name -> code
name_map ==
    [h \in DOMAIN CatalogFiles |->
        LET by_code == get_hospital_meta(h).departments_by_code
        IN [n \in {_normalize_department(by_code[c].name) : c \in DOMAIN by_code} |->
               CHOOSE c \in DOMAIN by_code : _normalize_department(by_code[c].name) = n]]

\* mutant: the UPDATE without "department_code IS NULL"
backfill_update_any_code(bk, code, h, norm_name) ==
    LET hit == {r \in bk : r.hospital_code = h /\ r.department = norm_name}
    IN [bookings |-> (bk \ hit) \cup {[r EXCEPT !.department_code = code] : r \in hit},
        rowcount |-> Cardinality(hit)]

\* UPDATE bookings SET department_code=? WHERE hospital_code=? AND
\* department_code IS NULL AND department=?, with its rowcount
backfill_update(bk, code, h, norm_name) ==
    LET hit == {r \in bk : /\ r.hospital_code = h
                           /\ r.department_code = NULL
                           /\ r.department = norm_name}
    IN [bookings |-> (bk \ hit) \cup {[r EXCEPT !.department_code = code] : r \in hit},
        rowcount |-> Cardinality(hit)]

\* the loop over name_map.items() of one hospital: one UPDATE per name
RECURSIVE backfill_hospital(_, _, _, _)
backfill_hospital(bk, h, names, updated_h) ==
    IF names = {} THEN [bookings |-> bk, updated_h |-> updated_h]
    ELSE LET norm_name == CHOOSE n \in names : TRUE
             res == backfill_update(bk, name_map[h][norm_name], h, norm_name)
         IN backfill_hospital(res.bookings, h, names \ {norm_name},
                              updated_h + res.rowcount)

\* the loop over the target hospitals; a hospital without catalog is skipped
RECURSIVE backfill_targets(_, _, _)
backfill_targets(bk, targets, summary) ==
    IF targets = {} THEN [bookings |-> bk, summary |-> summary]
    ELSE LET h == CHOOSE t \in targets : TRUE
             rest == targets \ {h}
         IN IF h \notin DOMAIN name_map
            THEN backfill_targets(bk, rest, summary)
            ELSE LET res == backfill_hospital(bk, h, DOMAIN name_map[h], 0)
                 IN backfill_targets(
                       res.bookings, rest,
                       IF res.updated_h = 0 THEN summary
                       ELSE [updated |-> summary.updated + res.updated_h,
                             hospitals |-> summary.hospitals @@ (h :> res.updated_h)])

\* backfill_department_codes(hospital_code = None): the rows and the summary
backfill_department_codes(bk, hospital_code) ==
    LET targets == IF hospital_code # NULL /\ hospital_code # ""
                   THEN {hospital_code}
                   ELSE {r.hospital_code : r \in bk} \ {"", NULL}
    IN backfill_targets(bk, targets, [updated |-> 0, hospitals |-> <<>>])

\* get_bookings_snapshot_by_codes: the result document; the rows are left as
\* (department_code, doctor_name, slot_time), legacy_rows_ignored is set only
\* when rows without department_code were counted
get_bookings_snapshot_by_codes(bk, ver, hospital_code, department_codes, date) ==
    LET codes == {c \in department_codes : c # ""}
        base == [hospital_code |-> hospital_code, date |-> date, version |-> ver,
                 bookings |-> {}]
        legacy_count == Cardinality({r \in bk : /\ r.hospital_code = hospital_code
                                                /\ r.date = date
                                                /\ r.department_code = NULL})
        rows == {<<r.department_code, r.doctor_name, r.slot_time>> :
                    r \in {x \in bk : /\ x.hospital_code = hospital_code
                                      /\ x.date = date
                                      /\ x.department_code \in codes}}
        found == [base EXCEPT !.bookings = rows]
    IN IF codes = {} THEN base
       ELSE IF legacy_count # 0
       THEN found @@ [legacy_rows_ignored |-> legacy_count]
       ELSE found

\* the hospitals backfill is asked for: one, all (None), one without catalog
BackfillInputs == {"H1", NULL, "H9"}

Request(h, dep, doc, d, slot, code) ==
    [hospital_code |-> h, department |-> dep, doctor_name |-> doc, date |-> d,
     slot_time |-> slot, department_code |-> code]

\* what sessions ask for: doctor BsA at 08:00 by two department paths (the name
\* alone as typed; another department's name with a code of the doctor), and
\* two requests the validation refuses
Requests ==
    { Request("H1", taiMuiTyped, "BsA", Date0, Padded0800, NULL),
      Request("H1", Mat, "BsA", Date0, S0800, "TMH"),
      Request("H1", Mat, "BsB", Date0, S0800, NULL),
      Request("H1", TaiMui, "BsA", Date0, OffGrid, "TMH") }

\* a request that names a code the catalog does not have
BadCodeRequest == Request("H1", taiMuiTyped, "BsA", Date0, S0800, "ZZZ")

\* what the dashboard books directly: the same, and a second doctor
\* a row as the dashboard stored it before codes existed: no department_code
LegacyRequest == Request("H1", Mat, "BsA", Date0, S0820, NULL)

BookRequests ==
    Requests \cup {BadCodeRequest, Request("H1", TaiMui, "BsB", Date0, S0800, "TMH"),
                   LegacyRequest}

PromoteRequests == Requests \cup {BadCodeRequest}

SessionInputs == {"s1", "s2", ""}
TTLInputs == {30}

----------------------------------------------------------------------------
(* Sessions of the orchestrator: identity_state and shared of each, and what *)
(* the booking pipeline hands to a session.                                  *)

Sessions == {"s1", "s2"}

\* the id attribute of each session's AgentSession object
SessionObjectId == [s \in Sessions |-> s]

\* (session and session.id) or shared.get("session_id") or "default"
SessionIdOf(s) == IF SessionObjectId[s] # NULL THEN SessionObjectId[s] ELSE "default"

\* user-facing department name: whitespace collapsed, stripped
_clean_display_name(s) == IF s = None THEN s ELSE strip(collapse_spaces(s))

\* PHONE_RE_FULL: ^0(3|5|7|8|9)\d{8}$
DigitChars == {"0", "1", "2", "3", "4", "5", "6", "7", "8", "9"}
PHONE_RE_FULL(p) ==
    /\ Len(p) = 10
    /\ p[1] = "0"
    /\ p[2] \in {"3", "5", "7", "8", "9"}
    /\ \A i \in 3..10 : p[i] \in DigitChars

\* an option as _sanitize_stage2_options leaves it: codes kept, the display
\* name of the department replaced by the canonical one
SanitizedOption(hospital_code, department_code, doctor_name, slot_time) ==
    [ hospital_code |-> hospital_code,
      department_code |-> department_code,
      department |-> _clean_display_name(
                        get_hospital_meta(hospital_code).departments_by_code[department_code].name),
      doctor_name |-> doctor_name,
      slot_time |-> slot_time ]

\* "2025-01-15 08:00"
SlotTimeFull == Date0 \o <<" ">> \o S0800

OptTMH == SanitizedOption("H1", "TMH", "BsA", SlotTimeFull)
OptMAT == SanitizedOption("H1", "MAT", "BsA", SlotTimeFull)

\* results of book_appointment: options, the option the pipeline marked chosen,
\* meta.selected_department_codes (which fixes meta.schedule), and
\* persist_result.soft_hold, absent at first; error is set in the document
\* book_appointment returns when the reasoner call failed
BookingResult(options, chosen, codes) ==
    [options |-> options, chosen |-> chosen, selected_department_codes |-> codes,
     soft_hold |-> NULL, error |-> NULL]

\* {"error": "api_error: ...", "meta": {...}}: no options, no chosen
ErrorDocument == [BookingResult(<<>>, None, {"TMH"}) EXCEPT !.error = "api_error"]

BookingResults ==
    { BookingResult(<<OptTMH>>, OptTMH, {"TMH"}),
      BookingResult(<<OptTMH, OptMAT>>, None, {"TMH", "MAT"}),
      BookingResult(<<>>, None, {"TMH"}),
      ErrorDocument }

An == <<"A", "n">>
GoodPhone == <<"0", "9", "1", "2", "3", "4", "5", "6", "7", "8">>
BadPhone == <<"1", "2", "3">>
OtherPhone == <<"0", "3", "1", "2", "3", "4", "5", "6", "7", "8">>

NameInputs == {An \o <<" ">>}
PhoneInputs == {<<" ">> \o GoodPhone, BadPhone}
OptionIndexInputs == {0, 1}

\* the schedule_appointment coroutines of a session that can be in flight at once
Invocations == {"a", "b"}

\* planner tasks a session is let to pile up
MaxRuns == 2

\* the coroutines of a session that call ReplyGate.say: the greeting, the
\* confirmation of the identity, the apology of a failed planner run
GateCallers == {"welcome", "confirm_identity", "_run_booking"}

\* no FinalizeThread yet
thread0 == [pc |-> "none", latest_booking |-> None, persist_info |-> NULL, failed |-> {}]

\* SessionBuf(): no line, no item id seen
SessionBuf0 == [lines |-> <<>>, seen_ids |-> {}]

identity_state0 ==
    [patient_name |-> None, phone |-> None, draft_name |-> None, draft_phone |-> None,
     draft_conf |-> 0, identity_confirmed |-> FALSE]

shared0 ==
    [latest_booking |-> None, allow_finalize |-> FALSE, closing |-> FALSE,
     booking_in_progress |-> FALSE]

----------------------------------------------------------------------------
(* The dashboard server and its polling client *)

\* /api/bookings (by department names) and /api/bookings_by_code
Endpoints == {"names", "codes"}

\* what the client asks for
QueryHospital == "H1"
QueryDepartments == {taiMuiTyped}
QueryCodes == {"TMH"}

reader0 == [pc |-> "idle", endpoint |-> NULL, version |-> 0, rows |-> {}]

WriterThreads == {"w1", "w2"}

----------------------------------------------------------------------------
(* The store with its callers *)

Init ==
    /\ bookings = {}
    /\ holds = {}
    /\ version = 0
    /\ now = 0
    /\ last = [op |-> "init", msg |-> NULL]
    /\ identity_state = [s \in Sessions |-> identity_state0]
    /\ shared = [s \in Sessions |-> shared0]
    /\ _DB_LOCK = NULL
    /\ inserted = None
    /\ reader = reader0
    /\ client = [e \in Endpoints |-> None]
    /\ bumped = {}
    /\ visits = {}
    /\ invocation = [s \in Sessions |-> [i \in Invocations |-> "idle"]]
    /\ active_runs = [s \in Sessions |-> 0]
    /\ gate_pc = [c \in GateCallers |-> "idle"]
    /\ gate_lock = NULL
    /\ gate_waiters = <<>>
    /\ gate_attempts = [c \in GateCallers |-> 0]
    /\ schedule_data = None
    /\ result_dict = None
    /\ finalize_thread = [s \in Sessions |-> thread0]
    /\ teardown = [s \in Sessions |-> "none"]
    /\ state = [s \in Sessions |-> SessionBuf0]
    /\ closing = [s \in Sessions |-> FALSE]
    /\ stored_conf = [s \in Sessions |-> [name |-> 0, phone |-> 0]]
    /\ availability = None

\* time passes
Tick ==
    /\ \E d \in {60, 70} : now + d <= MaxTime /\ now' = now + d
    /\ last' = [op |-> "tick", msg |-> NULL]
    /\ UNCHANGED <<bookings, holds, version, sessVars, rwVars>>

BookSlotStep(q) ==
    \E res \in {book_slot(bookings, version, q.hospital_code, q.department,
                         q.doctor_name, q.date, q.slot_time, q.department_code)} :
    /\ last' = [op |-> "book_slot", msg |-> res.msg]
    /\ bookings' = res.bookings
    /\ version' = res.version
    /\ UNCHANGED <<holds, now, sessVars, rwVars>>

CreateHoldStep(q, s, ttl) ==
    \E res \in {create_hold(bookings, holds, now, q.hospital_code, q.department,
                           q.doctor_name, q.date, q.slot_time, s, ttl,
                           q.department_code)} :
    /\ last' = [op |-> "create_hold", msg |-> res.msg]
    /\ holds' = res.holds
    /\ UNCHANGED <<bookings, version, now, sessVars, rwVars>>

CancelHoldsStep(s) ==
    /\ last' = [op |-> "cancel_holds_for_session", msg |-> s]
    /\ holds' = cancel_holds_for_session(holds, s)
    /\ UNCHANGED <<bookings, version, now, sessVars, rwVars>>

PromoteHoldStep(s, q) ==
    \E res \in {promote_hold_to_booking(bookings, holds, version, now, s,
                                       q.hospital_code, q.department, q.doctor_name,
                                       q.date, q.slot_time, q.department_code)} :
    /\ last' = [op |-> "promote_hold_to_booking", msg |-> res.msg]
    /\ bookings' = res.bookings
    /\ holds' = res.holds
    /\ version' = res.version
    /\ UNCHANGED <<now, sessVars, rwVars>>

BackfillStep(h) ==
    \E res \in {backfill_department_codes(bookings, h)} :
    /\ last' = [op |-> "backfill_department_codes", msg |-> ToString(res.summary.updated)]
    /\ bookings' = res.bookings
    /\ UNCHANGED <<holds, version, now, sessVars, rwVars>>

CallBookSlot == \E q \in BookRequests : BookSlotStep(q)

CallCreateHold == \E q \in Requests, s \in SessionInputs, ttl \in TTLInputs : CreateHoldStep(q, s, ttl)

CallCancelHolds == \E s \in SessionInputs : CancelHoldsStep(s)

CallPromoteHold == \E s \in SessionInputs, q \in PromoteRequests : PromoteHoldStep(s, q)

CallBackfill == \E h \in BackfillInputs : BackfillStep(h)

Next ==
    \/ Tick
    \/ CallBookSlot
    \/ CallCreateHold
    \/ CallCancelHolds
    \/ CallPromoteHold
    \/ CallBackfill

Spec == Init /\ [][Next]_vars

----------------------------------------------------------------------------
(* The tools of a session (function_calling_def.py).  A tool runs its store  *)
(* calls back to back; tools of different sessions interleave.               *)

\* mutant: a reconfirmation that changes the identity keeps the booking result
ConfirmIdentity_keeps_booking(s, patient_name_input, phone_input, confirm) ==
    LET id == identity_state[s]
        new_name == strip(patient_name_input)
        new_phone == strip(phone_input)
    IN IF id.identity_confirmed
       THEN \* reconfirmation: an update of name or phone drops the booking result
            LET name_changed == new_name # <<>> /\ new_name # id.patient_name
                phone_changed == /\ new_phone # <<>>
                                 /\ PHONE_RE_FULL(new_phone)
                                 /\ new_phone # id.phone
            IN /\ identity_state' =
                    [identity_state EXCEPT
                        ![s].patient_name = IF name_changed THEN new_name ELSE @,
                        ![s].phone = IF phone_changed THEN new_phone ELSE @]
               /\ shared' = shared
               /\ last' = [op |-> "confirm_identity",
                           msg |-> IF name_changed \/ phone_changed
                                   THEN "reconfirmed" ELSE "already_confirmed"]
       ELSE LET name == IF patient_name_input # <<>> THEN new_name
                        ELSE IF id.draft_name # None /\ id.patient_name = None
                        THEN id.draft_name ELSE id.patient_name
                phone == IF phone_input # <<>> /\ PHONE_RE_FULL(new_phone) THEN new_phone
                         ELSE IF id.draft_phone # None /\ id.phone = None
                         THEN id.draft_phone ELSE id.phone
                confirmed == confirm /\ name # None /\ phone # None
            IN /\ identity_state' =
                    [identity_state EXCEPT ![s].patient_name = name,
                                           ![s].phone = phone,
                                           ![s].identity_confirmed = confirmed]
               /\ shared' = shared
               /\ last' = [op |-> "confirm_identity",
                           msg |-> IF confirmed THEN "confirmed" ELSE "pending"]

\* confirm_identity(patient_name_input, phone_input, confirm)
ConfirmIdentity(s, patient_name_input, phone_input, confirm) ==
    LET id == identity_state[s]
        new_name == strip(patient_name_input)
        new_phone == strip(phone_input)
    IN IF id.identity_confirmed
       THEN \* reconfirmation: an update of name or phone drops the booking result
            LET name_changed == new_name # <<>> /\ new_name # id.patient_name
                phone_changed == /\ new_phone # <<>>
                                 /\ PHONE_RE_FULL(new_phone)
                                 /\ new_phone # id.phone
            IN /\ identity_state' =
                    [identity_state EXCEPT
                        ![s].patient_name = IF name_changed THEN new_name ELSE @,
                        ![s].phone = IF phone_changed THEN new_phone ELSE @]
               /\ shared' =
                    IF name_changed \/ phone_changed
                    THEN [shared EXCEPT ![s].latest_booking = None,
                                        ![s].allow_finalize = FALSE]
                    ELSE shared
               /\ last' = [op |-> "confirm_identity",
                           msg |-> IF name_changed \/ phone_changed
                                   THEN "reconfirmed" ELSE "already_confirmed"]
       ELSE LET name == IF patient_name_input # <<>> THEN new_name
                        ELSE IF id.draft_name # None /\ id.patient_name = None
                        THEN id.draft_name ELSE id.patient_name
                phone == IF phone_input # <<>> /\ PHONE_RE_FULL(new_phone) THEN new_phone
                         ELSE IF id.draft_phone # None /\ id.phone = None
                         THEN id.draft_phone ELSE id.phone
                confirmed == confirm /\ name # None /\ phone # None
            IN /\ identity_state' =
                    [identity_state EXCEPT ![s].patient_name = name,
                                           ![s].phone = phone,
                                           ![s].identity_confirmed = confirmed]
               /\ shared' = shared
               /\ last' = [op |-> "confirm_identity",
                           msg |-> IF confirmed THEN "confirmed" ELSE "pending"]

CallConfirmIdentity ==
    /\ \E s \in Sessions, n \in NameInputs, p \in PhoneInputs :
          ConfirmIdentity(s, n, p, TRUE)
    /\ UNCHANGED <<storeVars, visits, taskVars, kioskVars, plannerVars, finalizeVars, dashVars, draftVars, bufVars, rwVars>>

\* schedule_appointment: drops the previous result, then starts the lookup
ScheduleAppointment(s) ==
    LET cleared == [shared[s] EXCEPT !.latest_booking = None, !.allow_finalize = FALSE]
    IN IF ~identity_state[s].identity_confirmed
       THEN /\ shared' = [shared EXCEPT ![s] = cleared]
            /\ last' = [op |-> "schedule_appointment", msg |-> "identity_not_confirmed"]
       ELSE IF shared[s].booking_in_progress
       THEN /\ shared' = [shared EXCEPT ![s] = cleared]
            /\ last' = [op |-> "schedule_appointment", msg |-> "booking_in_progress"]
       ELSE /\ shared' = [shared EXCEPT ![s] = [cleared EXCEPT !.booking_in_progress = TRUE]]
            /\ last' = [op |-> "schedule_appointment", msg |-> "pending"]

CallScheduleAppointment ==
    /\ \E s \in Sessions : ScheduleAppointment(s)
    /\ UNCHANGED <<storeVars, identity_state, visits, taskVars, kioskVars, plannerVars, finalizeVars, dashVars, draftVars, bufVars, rwVars>>

\* _run_booking, the background task of schedule_appointment: the pipeline
\* returns a result, or raises
RunBooking(s, raised, result) ==
    /\ shared[s].booking_in_progress
    /\ shared' =
          IF raised
          THEN [shared EXCEPT ![s].booking_in_progress = FALSE]
          ELSE [shared EXCEPT ![s].latest_booking = result,
                              ![s].allow_finalize = TRUE,
                              ![s].booking_in_progress = FALSE]
    /\ last' = [op |-> "_run_booking",
                msg |-> IF raised THEN "booking_error" ELSE "booking_result"]

CallRunBooking ==
    /\ \E s \in Sessions, result \in BookingResults :
          \/ RunBooking(s, FALSE, result)
          \/ RunBooking(s, TRUE, None)
    /\ UNCHANGED <<storeVars, identity_state, visits, taskVars, kioskVars, plannerVars, finalizeVars, dashVars, draftVars, bufVars, rwVars>>

\* the canonical department name choose_booking_option finds in meta.schedule
canon_dep(latest, chosen) ==
    LET by_code == get_hospital_meta(chosen.hospital_code).departments_by_code
        dcode == chosen.department_code
    IN IF dcode \in latest.selected_department_codes /\ dcode \in DOMAIN by_code
       THEN _clean_display_name(by_code[dcode].name)
       ELSE None

\* choose_booking_option(option_index): marks the option chosen, releases the
\* session's holds and asks for a hold on the option (TTL 300)
ChooseBookingOption(s, option_index) ==
    LET latest == shared[s].latest_booking
        refused(error) ==
            /\ last' = [op |-> "choose_booking_option", msg |-> error]
            /\ UNCHANGED <<holds, shared>>
    IN IF latest = None THEN refused("no_booking_options")
       ELSE IF latest.options = <<>> THEN refused("no_options")
       ELSE IF option_index < 0 \/ option_index >= Len(latest.options)
       THEN refused("invalid_index")
       ELSE LET picked == latest.options[option_index + 1]
                canon == canon_dep(latest, picked)
                chosen == IF canon # None /\ picked.department # canon
                          THEN [picked EXCEPT !.department = canon] ELSE picked
                parts == split_sep(chosen.slot_time)
                date_part == parts[1]
                time_part == parts[Len(parts)]
                session_id == SessionIdOf(s)
                released == cancel_holds_for_session(holds, session_id)
                complete == /\ chosen.hospital_code # "" /\ chosen.department # <<>>
                            /\ chosen.doctor_name # "" /\ date_part # <<>> /\ time_part # <<>>
            IN \E res \in {IF complete
                           THEN create_hold(bookings, released, now, chosen.hospital_code,
                                            chosen.department, chosen.doctor_name, date_part,
                                            time_part, session_id, 300, chosen.department_code)
                           ELSE [ok |-> FALSE, msg |-> NULL, holds |-> released]} :
                  /\ last' = [op |-> "choose_booking_option", msg |-> "ok"]
                  /\ holds' = res.holds
                  /\ shared' =
                        [shared EXCEPT
                            ![s].latest_booking =
                                [latest EXCEPT
                                    !.options = [@ EXCEPT ![option_index + 1] = chosen],
                                    !.chosen = chosen,
                                    !.soft_hold = IF complete THEN res.msg ELSE @],
                            ![s].allow_finalize = TRUE]

CallChooseBookingOption ==
    /\ \E s \in Sessions, i \in OptionIndexInputs : ChooseBookingOption(s, i)
    /\ UNCHANGED <<bookings, version, now, identity_state, visits, taskVars, kioskVars, plannerVars, finalizeVars, dashVars, draftVars, bufVars, rwVars>>

\* mutant: the slot is booked directly first, the hold promoted only when the
\* direct booking is refused
FinalizePersist_direct_first(s) ==
    LET latest == shared[s].latest_booking
        chosen == IF latest = None THEN None ELSE latest.chosen
        nothing == [msg |-> "nothing_to_persist", mode |-> NULL, ok |-> FALSE, bookings |-> bookings,
                    holds |-> holds, version |-> version]
    IN IF chosen = None THEN nothing
       ELSE LET parts == split_sep(chosen.slot_time)
                date_part == parts[1]
                time_part == parts[Len(parts)]
                direct == book_slot(bookings, version,
                                    chosen.hospital_code, chosen.department,
                                    chosen.doctor_name, date_part, time_part,
                                    chosen.department_code)
                promoted == promote_hold_to_booking(
                                direct.bookings, holds, direct.version, now, SessionIdOf(s),
                                chosen.hospital_code, chosen.department, chosen.doctor_name,
                                date_part, time_part, chosen.department_code)
            IN IF ~(/\ chosen.hospital_code # "" /\ chosen.department # <<>>
                    /\ chosen.doctor_name # "" /\ date_part # <<>> /\ time_part # <<>>)
               THEN nothing
               ELSE IF direct.ok
               THEN [msg |-> direct.msg, mode |-> "direct_fallback", ok |-> direct.ok,
                     bookings |-> direct.bookings, holds |-> holds,
                     version |-> direct.version]
               ELSE [msg |-> promoted.msg, mode |-> "promote_hold", ok |-> promoted.ok,
                     bookings |-> promoted.bookings,
                     holds |-> promoted.holds, version |-> promoted.version]

\* what finalize_visit does to the store: promote the hold on the chosen
\* option, and book the slot directly when the promotion is refused
FinalizePersist(s) ==
    LET latest == shared[s].latest_booking
        chosen == IF latest = None THEN None ELSE latest.chosen
        nothing == [msg |-> "nothing_to_persist", mode |-> NULL, ok |-> FALSE, bookings |-> bookings,
                    holds |-> holds, version |-> version]
    IN IF chosen = None THEN nothing
       ELSE LET parts == split_sep(chosen.slot_time)
                date_part == parts[1]
                time_part == parts[Len(parts)]
                promoted == promote_hold_to_booking(
                                bookings, holds, version, now, SessionIdOf(s),
                                chosen.hospital_code, chosen.department, chosen.doctor_name,
                                date_part, time_part, chosen.department_code)
                direct == book_slot(promoted.bookings, promoted.version,
                                    chosen.hospital_code, chosen.department,
                                    chosen.doctor_name, date_part, time_part,
                                    chosen.department_code)
            IN IF ~(/\ chosen.hospital_code # "" /\ chosen.department # <<>>
                    /\ chosen.doctor_name # "" /\ date_part # <<>> /\ time_part # <<>>)
               THEN nothing
               ELSE IF promoted.ok
               THEN [msg |-> promoted.msg, mode |-> "promote_hold", ok |-> promoted.ok,
                     bookings |-> promoted.bookings,
                     holds |-> promoted.holds, version |-> promoted.version]
               ELSE [msg |-> direct.msg, mode |-> "direct_fallback", ok |-> direct.ok,
                     bookings |-> direct.bookings,
                     holds |-> promoted.holds, version |-> direct.version]

\* the visit row the FinalizeThread of finalize_visit saves: save_visit is
\* reached on every path of the thread, with the booking result the tool read
\* before it cleared shared
FinalizeThreadVisit(s) ==
    LET latest == shared[s].latest_booking
    IN [session |-> s, booking |-> IF latest = None THEN None ELSE latest.chosen]

\* finalize_visit: refused while closing; else persists the booking, hands the
\* visit to the background thread and closes the session
FinalizeVisit(s) ==
    IF shared[s].closing
    THEN /\ last' = [op |-> "finalize_visit", msg |-> "closing"]
         /\ UNCHANGED <<bookings, holds, version, shared, visits>>
    ELSE \E res \in {FinalizePersist(s)} :
            /\ last' = [op |-> "finalize_visit", msg |-> res.msg]
            /\ bookings' = res.bookings
            /\ holds' = res.holds
            /\ version' = res.version
            /\ visits' = visits \cup {FinalizeThreadVisit(s)}
            /\ shared' = [shared EXCEPT ![s].allow_finalize = FALSE,
                                        ![s].latest_booking = None,
                                        ![s].closing = TRUE]

CallFinalizeVisit ==
    /\ \E s \in Sessions : FinalizeVisit(s)
    /\ UNCHANGED <<now, identity_state, taskVars, kioskVars, plannerVars, finalizeVars, dashVars, draftVars, bufVars, rwVars>>

NextSess ==
    \/ CallConfirmIdentity
    \/ CallScheduleAppointment
    \/ CallRunBooking
    \/ CallChooseBookingOption
    \/ CallFinalizeVisit

SpecSess == Init /\ [][NextSess]_vars

----------------------------------------------------------------------------
(* schedule_appointment as the event loop runs it: the coroutine is          *)
(* suspended at "await context.wait_for_playout()", between the test of      *)
(* booking_in_progress and its assignment, and other coroutines of the       *)
(* session run in that gap.                                                  *)

\* schedule_appointment up to the await: clears the previous result, checks the
\* identity and booking_in_progress
ScheduleEnter(s, i) ==
    LET cleared == [shared[s] EXCEPT !.latest_booking = None, !.allow_finalize = FALSE]
    IN /\ invocation[s][i] = "idle"
       /\ shared' = [shared EXCEPT ![s] = cleared]
       /\ IF ~identity_state[s].identity_confirmed
          THEN /\ last' = [op |-> "schedule_appointment", msg |-> "identity_not_confirmed"]
               /\ UNCHANGED invocation
          ELSE IF shared[s].booking_in_progress
          THEN /\ last' = [op |-> "schedule_appointment", msg |-> "booking_in_progress"]
               /\ UNCHANGED invocation
          ELSE /\ last' = [op |-> "schedule_appointment", msg |-> "wait_for_playout"]
               /\ invocation' = [invocation EXCEPT ![s][i] = "wait_for_playout"]
       /\ UNCHANGED <<storeVars, identity_state, visits, active_runs, kioskVars, plannerVars, finalizeVars, dashVars, draftVars, bufVars, rwVars>>

\* schedule_appointment after the await, called without preferred_time: sets
\* booking_in_progress and creates the _run_booking task
ScheduleResume(s, i) ==
    /\ invocation[s][i] = "wait_for_playout"
    /\ active_runs[s] < MaxRuns
    /\ shared' = [shared EXCEPT ![s].booking_in_progress = TRUE]
    /\ active_runs' = [active_runs EXCEPT ![s] = @ + 1]
    /\ invocation' = [invocation EXCEPT ![s][i] = "idle"]
    /\ last' = [op |-> "schedule_appointment", msg |-> "pending"]
    /\ UNCHANGED <<storeVars, identity_state, visits, kioskVars, plannerVars, finalizeVars, dashVars, draftVars, bufVars, rwVars>>

\* one _run_booking task runs to its end: result or error, and the finally
RunBookingTask(s, raised, result) ==
    /\ active_runs[s] > 0
    /\ shared' =
          IF raised
          THEN [shared EXCEPT ![s].booking_in_progress = FALSE]
          ELSE [shared EXCEPT ![s].latest_booking = result,
                              ![s].allow_finalize = TRUE,
                              ![s].booking_in_progress = FALSE]
    /\ active_runs' = [active_runs EXCEPT ![s] = @ - 1]
    /\ last' = [op |-> "_run_booking",
                msg |-> IF raised THEN "booking_error" ELSE "booking_result"]
    /\ UNCHANGED <<storeVars, identity_state, visits, invocation, kioskVars, plannerVars, finalizeVars, dashVars, draftVars, bufVars, rwVars>>

CallScheduleEnter == \E s \in Sessions, i \in Invocations : ScheduleEnter(s, i)

CallScheduleResume == \E s \in Sessions, i \in Invocations : ScheduleResume(s, i)

CallRunBookingTask ==
    \E s \in Sessions, result \in BookingResults :
       \/ RunBookingTask(s, FALSE, result)
       \/ RunBookingTask(s, TRUE, None)

NextTasks ==
    \/ CallConfirmIdentity
    \/ CallScheduleEnter
    \/ CallScheduleResume
    \/ CallRunBookingTask

SpecTasks == Init /\ [][NextTasks]_vars

\* the event loop runs the task create_task made, and the reasoner call in the
\* worker thread returns or raises: a created _run_booking task ends
SpecTasksLive ==
    /\ SpecTasks
    /\ \A s \in Sessions :
          WF_vars(\E result \in BookingResults :
                     \/ RunBookingTask(s, FALSE, result)
                     \/ RunBookingTask(s, TRUE, None))

----------------------------------------------------------------------------
(* ReplyGate (gemini_kiosk.py): say holds an asyncio.Lock over a debounce    *)
(* sleep, a generate_reply and, if that raised and retry is set, a backoff   *)
(* sleep and one more generate_reply.  asyncio.Lock hands the lock to its    *)
(* waiters first come first; a caller takes a free lock at once only when    *)
(* nobody waits.                                                             *)

\* mutant: the lock is left locked when the call returns
lock_kept_on_exit(c) == c

\* the exit of "async with self._lock"
lock_on_exit(c) == NULL

\* say is called: "async with self._lock" takes the lock or waits for it
GateSay(c) ==
    /\ gate_pc[c] = "idle"
    /\ gate_attempts' = [gate_attempts EXCEPT ![c] = 0]
    /\ IF gate_lock = NULL /\ gate_waiters = <<>>
       THEN /\ gate_lock' = c
            /\ gate_pc' = [gate_pc EXCEPT ![c] = "debounce"]
            /\ UNCHANGED gate_waiters
       ELSE /\ gate_waiters' = Append(gate_waiters, c)
            /\ gate_pc' = [gate_pc EXCEPT ![c] = "waiting"]
            /\ UNCHANGED gate_lock
    /\ last' = [op |-> "ReplyGate.say", msg |-> "called"]

\* the first waiter is woken and takes the released lock
GateAcquire(c) ==
    /\ gate_pc[c] = "waiting"
    /\ gate_lock = NULL
    /\ gate_waiters # <<>> /\ Head(gate_waiters) = c
    /\ gate_lock' = c
    /\ gate_waiters' = Tail(gate_waiters)
    /\ gate_pc' = [gate_pc EXCEPT ![c] = "debounce"]
    /\ UNCHANGED gate_attempts
    /\ last' = [op |-> "ReplyGate.say", msg |-> "acquired"]

\* after a sleep (debounce or backoff) generate_reply is issued
GateIssue(c) ==
    /\ gate_pc[c] \in {"debounce", "backoff"}
    /\ gate_pc' = [gate_pc EXCEPT ![c] = IF @ = "debounce" THEN "attempt1" ELSE "attempt2"]
    /\ gate_attempts' = [gate_attempts EXCEPT ![c] = @ + 1]
    /\ UNCHANGED <<gate_lock, gate_waiters>>
    /\ last' = [op |-> "ReplyGate.say", msg |-> "generate_reply"]

\* the reply in flight ends: played out, or an exception; say(retry) goes on to
\* the backoff after a first failure, else it returns and leaves the lock
GateReplyEnds(c, raised, retry) ==
    /\ gate_pc[c] \in {"attempt1", "attempt2"}
    /\ IF raised /\ retry /\ gate_pc[c] = "attempt1"
       THEN /\ gate_pc' = [gate_pc EXCEPT ![c] = "backoff"]
            /\ UNCHANGED gate_lock
            /\ last' = [op |-> "ReplyGate.say", msg |-> "backoff"]
       ELSE /\ gate_pc' = [gate_pc EXCEPT ![c] = "idle"]
            /\ gate_lock' = lock_on_exit(c)
            /\ last' = [op |-> "ReplyGate.say",
                        msg |-> IF ~raised THEN "replied"
                                ELSE IF gate_pc[c] = "attempt2" THEN "retry_failed"
                                ELSE "failed"]
    /\ UNCHANGED <<gate_waiters, gate_attempts>>

GateFrame ==
    UNCHANGED <<storeVars, identity_state, shared, visits, taskVars, plannerVars, finalizeVars, dashVars, draftVars, bufVars, rwVars>>

CallGateSay == (\E c \in GateCallers : GateSay(c)) /\ GateFrame

CallGateAcquire == (\E c \in GateCallers : GateAcquire(c)) /\ GateFrame

CallGateIssue == (\E c \in GateCallers : GateIssue(c)) /\ GateFrame

CallGateReplyEnds ==
    (\E c \in GateCallers, raised \in BOOLEAN, retry \in BOOLEAN :
        GateReplyEnds(c, raised, retry)) /\ GateFrame

NextGate ==
    \/ CallGateSay
    \/ CallGateAcquire
    \/ CallGateIssue
    \/ CallGateReplyEnds

SpecGate == Init /\ [][NextGate]_vars

\* the event loop runs every coroutine that can run: a woken waiter takes the
\* lock, a sleep ends, and the realtime session ends every reply it was asked
\* for, by playing it out or by raising
GateProgress(c) ==
    \/ GateAcquire(c)
    \/ GateIssue(c)
    \/ \E raised \in BOOLEAN, retry \in BOOLEAN : GateReplyEnds(c, raised, retry)

SpecGateLive ==
    /\ SpecGate
    /\ \A c \in GateCallers : WF_vars(GateProgress(c) /\ GateFrame)

----------------------------------------------------------------------------
(* The two-stage planner (booking.py): _gather_schedule builds the schedule  *)
(* document from the catalog and the blocked snapshot of the store, the      *)
(* reasoner answers with options, _sanitize_stage2_options checks them       *)
(* against the document.                                                     *)

\* {blocked: {code: {doctor: [slot]}}} as the set of its <<code, doctor, slot>>:
\* the confirmed bookings and the live holds of the hospital on the date whose
\* department_code is one of the codes asked for
get_blocked_snapshot_by_codes(bk, hd, t, hospital_code, department_codes, date) ==
    LET booked == {r \in bk : /\ r.hospital_code = hospital_code
                              /\ r.date = date
                              /\ r.department_code \in department_codes}
        held == {r \in hd : /\ r.hospital_code = hospital_code
                            /\ r.date = date
                            /\ r.department_code \in department_codes
                            /\ ~Expired(r.expires_at, t)}
    IN {<<r.department_code, r.doctor_name, r.slot_time>> : r \in booked}
       \cup {<<r.department_code, r.doctor_name, r.slot_time>> : r \in held}

\* mutant: the blocked snapshot is not consulted
free_slots_all(blocked, code, doc) == ALL_SLOTS

\* [s for s in ALL_SLOTS if s not in blocked_map[code][doc]]
free_slots(blocked, code, doc) ==
    SelectSeq(ALL_SLOTS, LAMBDA s : <<code, doc, s>> \notin blocked)

\* the departments entry of one hospital: the selected codes its catalog has
dep_entries(bk, hd, t, hosp_code, selected_department_codes, date_str) ==
    LET by_code == get_hospital_meta(hosp_code).departments_by_code
        blocked == get_blocked_snapshot_by_codes(bk, hd, t, hosp_code,
                                                 selected_department_codes, date_str)
    IN { [ department_code |-> code,
           department_name |-> _clean_display_name(by_code[code].name),
           doctors |-> { [name |-> doc, free_slots |-> free_slots(blocked, code, doc)] :
                            doc \in by_code[code].doctors } ] :
         code \in selected_department_codes \cap DOMAIN by_code }

\* the schedule document: one entry per hospital file that has a selected code
_gather_schedule(bk, hd, t, selected_department_codes, date_str) ==
    [ error |-> NULL,
      date |-> date_str,
      hospitals |->
         { [ hospital_code |-> h, hospital_name |-> h,
             departments |-> dep_entries(bk, hd, t, h, selected_department_codes, date_str) ] :
           h \in { x \in DOMAIN CatalogFiles :
                      dep_entries(bk, hd, t, x, selected_department_codes, date_str) # {} } },
      selected_department_codes |-> selected_department_codes ]

\* an option as the reasoner writes it
RawOption(hospital, hospital_code, department, department_code, doctor_name, slot_time) ==
    [ hospital |-> hospital, hospital_code |-> hospital_code,
      department |-> department, department_code |-> department_code,
      doctor_name |-> doctor_name, slot_time |-> slot_time ]

\* o.get("hospital_code") or o.get("hospital")
option_hosp(o) == IF o.hospital_code # NULL THEN o.hospital_code ELSE o.hospital

\* (o.get("slot_time") or "").split(" ")[-1]
option_slot(o) == LET parts == split_sep(o.slot_time) IN parts[Len(parts)]

\* the doctor entries of the document an option points at: hospital in the
\* document, department_code under it, doctor in the department's roster
option_doctor_entries(sd, o) ==
    UNION { UNION { {d \in dep.doctors : d.name = o.doctor_name} :
                      dep \in {x \in h.departments : x.department_code = o.department_code} } :
            h \in {x \in sd.hospitals : x.hospital_code = option_hosp(o)} }

\* mutant: an option is kept whatever its slot
option_valid_any_slot(sd, o) == option_doctor_entries(sd, o) # {}

\* the four checks an option has to pass; the slot is looked up only if the
\* option has one
option_valid(sd, o) ==
    /\ option_doctor_entries(sd, o) # {}
    /\ option_slot(o) # <<>> =>
          \E d \in option_doctor_entries(sd, o) :
             \E i \in 1..Len(d.free_slots) : d.free_slots[i] = option_slot(o)

\* the option with the canonical names written into it
option_normalized(sd, o) ==
    LET h == CHOOSE x \in sd.hospitals : x.hospital_code = option_hosp(o)
        dep == CHOOSE x \in h.departments : x.department_code = o.department_code
    IN [o EXCEPT !.hospital_code = option_hosp(o),
                 !.department = _clean_display_name(dep.department_name),
                 !.hospital = h.hospital_name]

RECURSIVE valid_opts(_, _)
valid_opts(sd, opts) ==
    IF opts = <<>> THEN <<>>
    ELSE IF option_valid(sd, Head(opts))
    THEN <<option_normalized(sd, Head(opts))>> \o valid_opts(sd, Tail(opts))
    ELSE valid_opts(sd, Tail(opts))

\* options replaced by the valid ones; a chosen that is not among them replaced
\* by the first of them, or by None
_sanitize_stage2_options(sd, rd) ==
    LET valid == valid_opts(sd, rd.options)
        in_valid == \E i \in 1..Len(valid) : valid[i] = rd.chosen
    IN [rd EXCEPT !.options = valid,
                  !.chosen = IF rd.chosen # None /\ ~in_valid
                             THEN IF valid # <<>> THEN valid[1] ELSE None
                             ELSE rd.chosen]

\* what the reasoner may answer: the options it was asked for, options that
\* point outside the document, and options without a time
SlotTime(date, slot) == date \o <<" ">> \o slot

RawTMH == RawOption(NULL, "H1", <<"t","m","h">>, "TMH", "BsA", SlotTime(Date0, S0800))
RawMAT == RawOption("H1", NULL, Mat, "MAT", "BsA", SlotTime(Date0, S0820))
RawForeignDoctor == RawOption(NULL, "H1", Mat, "MAT", "BsB", SlotTime(Date0, S0800))
RawForeignCode == RawOption(NULL, "H1", Mat, "ZZZ", "BsA", SlotTime(Date0, S0800))
RawForeignHospital == RawOption(NULL, "H9", TaiMui, "TMH", "BsA", SlotTime(Date0, S0800))
RawOffGrid == RawOption(NULL, "H1", TaiMui, "TMH", "BsB", SlotTime(Date0, OffGrid))
RawNoTime == RawOption(NULL, "H1", TaiMui, "TMH", "BsB", Date0 \o <<" ">>)
RawEmptyTime == RawOption(NULL, "H1", TaiMui, "TMH", "BsB", <<>>)
\* the second option as the sanitizer writes it: every name canonical
RawCanonMAT == RawOption("H1", "H1", Mat, "MAT", "BsA", SlotTime(Date0, S0820))

RawResult(options, chosen) == [error |-> NULL, options |-> options, chosen |-> chosen]

ReasonerOutputs ==
    { RawResult(<<RawTMH, RawMAT>>, RawTMH),
      RawResult(<<RawTMH, RawMAT>>, RawMAT),
      RawResult(<<RawTMH, RawCanonMAT>>, RawCanonMAT),
      RawResult(<<RawTMH, RawMAT>>, None),
      RawResult(<<RawForeignDoctor, RawMAT>>, RawForeignDoctor),
      RawResult(<<RawForeignCode, RawForeignHospital, RawOffGrid>>, RawOffGrid),
      RawResult(<<RawTMH>>, RawMAT),
      RawResult(<<RawOffGrid, RawNoTime>>, RawNoTime),
      RawResult(<<RawEmptyTime>>, RawEmptyTime),
      RawResult(<<>>, None),
      RawResult(<<>>, RawTMH) }

CodeSelections == {{"TMH"}, {"MAT"}, {"TMH", "MAT"}}

\* what the sessions around the planner do to the store: a booking under each
\* department of doctor BsA, one without a code, holds on BsB
PlannerBookRequests ==
    { Request("H1", TaiMui, "BsA", Date0, S0800, "TMH"),
      Request("H1", Mat, "BsA", Date0, S0820, NULL) }

PlannerHoldRequests == { Request("H1", TaiMui, "BsB", Date0, S0800, "TMH") }

\* Stage 2 of book_appointment, first half: the schedule document
GatherSchedule(codes) ==
    /\ schedule_data' = _gather_schedule(bookings, holds, now, codes, Date0)
    /\ result_dict' = None
    /\ last' = [op |-> "_gather_schedule", msg |-> NULL]
    /\ UNCHANGED <<storeVars, identity_state, shared, visits, taskVars, kioskVars,
                   finalizeVars, dashVars, draftVars, bufVars, rwVars>>

\* Stage 2, second half: the reasoner is called with the document; a failed
\* call gives an error document, an answer is sanitized
Stage2BuildBooking(raised, raw) ==
    /\ schedule_data # None
    /\ result_dict' = IF raised
                      THEN [error |-> "api_error", options |-> <<>>, chosen |-> None]
                      ELSE _sanitize_stage2_options(schedule_data, raw)
    /\ last' = [op |-> "_stage2_build_booking", msg |-> IF raised THEN "error" ELSE "ok"]
    /\ UNCHANGED <<storeVars, identity_state, shared, visits, taskVars, kioskVars,
                   schedule_data, finalizeVars, dashVars, draftVars, bufVars, rwVars>>

CallPlannerBookSlot == \E q \in PlannerBookRequests : BookSlotStep(q)

CallPlannerCreateHold ==
    \E q \in PlannerHoldRequests, s \in Sessions, ttl \in TTLInputs : CreateHoldStep(q, s, ttl)

CallGatherSchedule == \E codes \in CodeSelections : GatherSchedule(codes)

CallStage2BuildBooking ==
    \E raw \in ReasonerOutputs :
       \/ Stage2BuildBooking(FALSE, raw)
       \/ Stage2BuildBooking(TRUE, raw)

NextPlanner ==
    \/ Tick
    \/ CallPlannerBookSlot
    \/ CallPlannerCreateHold
    \/ CallGatherSchedule
    \/ CallStage2BuildBooking

SpecPlanner == Init /\ [][NextPlanner]_vars

----------------------------------------------------------------------------
(* finalize_visit with its background thread: the tool persists the booking, *)
(* starts the FinalizeThread and closes; the thread summarizes, finds the    *)
(* customer, saves the visit and, in its finally, schedules _late_close.     *)

\* shared.get("extract_facts_and_summary"): the kiosk never puts the key in shared
extract_facts_fn == NULL

\* "CUS-" and ten hex digits of the SHA-1 of the phone
_stable_id_from_phone(phone) == <<"CUS-">> \o phone

\* str.count(":")
colon_count(t) == Cardinality({i \in 1..Len(t) : t[i] = ":"})

\* the booking_index the thread derives from the chosen option
booking_index(latest) ==
    IF latest = None \/ latest.chosen = None
    THEN [hospital_code |-> NULL, department_code |-> NULL, doctor_name |-> NULL,
          date |-> None, slot_time |-> None]
    ELSE LET chosen_bk == latest.chosen
             parts == split(strip(chosen_bk.slot_time))
             two == Len(parts) = 2 /\ colon_count(parts[2]) = 1
             one == Len(parts) = 1 /\ colon_count(parts[1]) = 1
         IN [hospital_code |-> chosen_bk.hospital_code,
             department_code |-> chosen_bk.department_code,
             doctor_name |-> chosen_bk.doctor_name,
             date |-> IF two THEN parts[1] ELSE None,
             slot_time |-> IF two THEN parts[2] ELSE IF one THEN parts[1] ELSE None]

\* the steps of the thread that may raise
FailureSteps == {"summary", "customer", "facts", "facts_import", "save_visit", "save_fallback"}

\* the runs of the thread looked at: no failure, each step alone, the two early
\* steps together, both saves, every step
FailureInputs ==
    { {}, {"summary"}, {"customer"}, {"facts"}, {"save_visit"}, {"summary", "customer"},
      {"save_visit", "save_fallback"}, FailureSteps }

\* mutant: the visit is saved only when the summary succeeded
thread_visits_needs_summary(s, latest, extractor, failed) ==
    IF "summary" \in failed \/ "save_visit" \in failed THEN {}
    ELSE {[session |-> s, customer_id |-> _stable_id_from_phone(identity_state[s].phone),
           payload |-> "no_extractor", summary |-> "summary", booking |-> latest,
           booking_index |-> None]}

\* the rows the thread writes, at most one: a failed summary is replaced by the
\* raw transcript, a failed customer lookup by the id UNKNOWN, a failed facts
\* extraction by empty facts; with an extractor a failed save is followed by a
\* save of the fallback payload, without one it is only printed
thread_visits(s, latest, extractor, failed) ==
    LET cid == IF "customer" \in failed THEN <<"UNKNOWN">>
               ELSE _stable_id_from_phone(identity_state[s].phone)
        row(kind, index) ==
            [session |-> s, customer_id |-> cid, payload |-> kind,
             summary |-> IF "summary" \in failed THEN "raw_transcript" ELSE "summary",
             booking |-> latest, booking_index |-> index]
    IN IF extractor
       THEN IF "facts_import" \in failed
            THEN IF "save_visit" \in failed THEN {} ELSE {row("no_facts", None)}
            ELSE IF "save_visit" \notin failed THEN {row("final", booking_index(latest))}
            ELSE IF "save_fallback" \notin failed THEN {row("fallback", None)}
            ELSE {}
       ELSE IF "save_visit" \in failed THEN {} ELSE {row("no_extractor", None)}

\* mutant: finalize_visit without the test of closing
FinalizeVisitStart_reentrant(s) ==
    \E res \in {FinalizePersist(s)} :
       /\ last' = [op |-> "finalize_visit", msg |-> res.msg]
       /\ bookings' = res.bookings
       /\ holds' = res.holds
       /\ version' = res.version
       /\ finalize_thread' =
             [finalize_thread EXCEPT
                 ![s] = [pc |-> "running", latest_booking |-> shared[s].latest_booking,
                         persist_info |-> [mode |-> res.mode, ok |-> res.ok],
                         failed |-> {}]]
       /\ shared' = [shared EXCEPT ![s].allow_finalize = FALSE,
                                   ![s].latest_booking = None,
                                   ![s].closing = TRUE]

\* finalize_visit up to its return: refused while closing; else the booking is
\* persisted, the thread started with the booking result read before shared
\* is cleared, and the session marked closing
FinalizeVisitStart(s) ==
    IF shared[s].closing
    THEN /\ last' = [op |-> "finalize_visit", msg |-> "closing"]
         /\ UNCHANGED <<bookings, holds, version, shared, finalize_thread>>
    ELSE \E res \in {FinalizePersist(s)} :
            /\ last' = [op |-> "finalize_visit", msg |-> res.msg]
            /\ bookings' = res.bookings
            /\ holds' = res.holds
            /\ version' = res.version
            /\ finalize_thread' =
                  [finalize_thread EXCEPT
                      ![s] = [pc |-> "running", latest_booking |-> shared[s].latest_booking,
                         persist_info |-> [mode |-> res.mode, ok |-> res.ok],
                              failed |-> {}]]
            /\ shared' = [shared EXCEPT ![s].allow_finalize = FALSE,
                                        ![s].latest_booking = None,
                                        ![s].closing = TRUE]

\* _bg_finalize_thread from start to the end of its finally, with or without
\* an extractor in shared
FinalizeThreadRun(s, extractor, failed) ==
    /\ finalize_thread[s].pc = "running"
    /\ visits' = visits \cup thread_visits(s, finalize_thread[s].latest_booking,
                                           extractor, failed)
    /\ finalize_thread' = [finalize_thread EXCEPT ![s].pc = "done", ![s].failed = failed]
    /\ teardown' = [teardown EXCEPT ![s] = "scheduled"]
    /\ last' = [op |-> "_bg_finalize_thread", msg |-> "done"]

\* the thread of the kiosk: shared carries no extractor
BgFinalizeThread(s, failed) == FinalizeThreadRun(s, extract_facts_fn # NULL, failed)

\* _late_close on the event loop: session.aclose(), room.disconnect(), state.clear()
LateClose(s) ==
    /\ teardown[s] = "scheduled"
    /\ teardown' = [teardown EXCEPT ![s] = "closed"]
    /\ state' = [state EXCEPT ![s] = SessionBuf0]
    /\ last' = [op |-> "_late_close", msg |-> NULL]

FinalizeSessions == {"s1"}

FinConfirmIdentity ==
    /\ \E s \in FinalizeSessions, n \in NameInputs, p \in PhoneInputs :
          ConfirmIdentity(s, n, p, TRUE)
    /\ UNCHANGED <<storeVars, visits, taskVars, kioskVars, plannerVars, finalizeVars, dashVars, draftVars, bufVars, rwVars>>

FinScheduleAppointment ==
    /\ \E s \in FinalizeSessions : ScheduleAppointment(s)
    /\ UNCHANGED <<storeVars, identity_state, visits, taskVars, kioskVars, plannerVars,
                   finalizeVars, dashVars, draftVars, bufVars, rwVars>>

FinRunBooking ==
    /\ \E s \in FinalizeSessions, result \in BookingResults :
          \/ RunBooking(s, FALSE, result)
          \/ RunBooking(s, TRUE, None)
    /\ UNCHANGED <<storeVars, identity_state, visits, taskVars, kioskVars, plannerVars,
                   finalizeVars, dashVars, draftVars, bufVars, rwVars>>

FinChooseBookingOption ==
    /\ \E s \in FinalizeSessions, i \in OptionIndexInputs : ChooseBookingOption(s, i)
    /\ UNCHANGED <<bookings, version, now, identity_state, visits, taskVars, kioskVars,
                   plannerVars, finalizeVars, dashVars, draftVars, bufVars, rwVars>>

FinFinalizeVisit ==
    /\ \E s \in FinalizeSessions : FinalizeVisitStart(s)
    /\ UNCHANGED <<now, identity_state, visits, taskVars, kioskVars, plannerVars,
                   teardown, dashVars, draftVars, bufVars, rwVars>>

FinThread ==
    /\ \E s \in FinalizeSessions, failed \in FailureInputs : BgFinalizeThread(s, failed)
    /\ UNCHANGED <<storeVars, identity_state, shared, taskVars, kioskVars, plannerVars, dashVars, draftVars, bufVars, rwVars>>

FinLateClose ==
    /\ \E s \in FinalizeSessions : LateClose(s)
    /\ UNCHANGED <<storeVars, identity_state, shared, visits, taskVars, kioskVars,
                   plannerVars, finalize_thread, dashVars, draftVars, closing, rwVars>>

NextFinalize ==
    \/ Tick
    \/ FinConfirmIdentity
    \/ FinScheduleAppointment
    \/ FinRunBooking
    \/ FinChooseBookingOption
    \/ FinFinalizeVisit
    \/ FinThread
    \/ FinLateClose

SpecFinalize == Init /\ [][NextFinalize]_vars

\* a started thread runs and every call in it returns or raises; the event
\* loop runs the coroutine handed to it
SpecFinalizeLive ==
    /\ SpecFinalize
    /\ WF_vars(FinThread)
    /\ WF_vars(FinLateClose)


\* the pipeline as build_all_tools documents it, with extract_facts_and_summary
\* in shared, next to other clients of the store booking slots
PipelineThread ==
    /\ \E s \in FinalizeSessions, failed \in FailureInputs : FinalizeThreadRun(s, TRUE, failed)
    /\ UNCHANGED <<storeVars, identity_state, shared, taskVars, kioskVars, plannerVars, dashVars, draftVars, bufVars, rwVars>>

NextPipeline ==
    \/ CallPlannerBookSlot
    \/ FinConfirmIdentity
    \/ FinScheduleAppointment
    \/ FinRunBooking
    \/ FinChooseBookingOption
    \/ FinFinalizeVisit
    \/ PipelineThread
    \/ FinLateClose

SpecPipeline == Init /\ [][NextPipeline]_vars

----------------------------------------------------------------------------
(* The identity tools alone, with everything a caller can pass them: absent  *)
(* and blank texts, phones that are not mobile numbers, any confidence.      *)
(* Confidence is counted in tenths: 0.0 .. 1.0 is 0 .. 10.                   *)

\* max(0.0, min(1.0, float(confidence or 0.0)))
clamp_conf(confidence) ==
    IF confidence < 0 THEN 0 ELSE IF confidence > 10 THEN 10 ELSE confidence

\* propose_identity(patient_name_partial, phone_partial, confidence): a draft
\* is taken when there is none yet or the confidence is not lower than before
ProposeIdentity(s, patient_name_partial, phone_partial, confidence) ==
    LET id == identity_state[s]
        conf == clamp_conf(confidence)
        takes_name == /\ patient_name_partial # <<>>
                      /\ (id.draft_name = None \/ conf >= id.draft_conf)
        id1 == IF takes_name
               THEN [id EXCEPT !.draft_name = strip(patient_name_partial),
                               !.draft_conf = conf]
               ELSE id
        takes_phone == /\ phone_partial # <<>>
                       /\ (id1.draft_phone = None \/ conf >= id1.draft_conf)
        id2 == IF takes_phone
               THEN [id1 EXCEPT !.draft_phone = strip(phone_partial),
                                !.draft_conf = conf]
               ELSE id1
    IN IF id.identity_confirmed
       THEN /\ last' = [op |-> "propose_identity", msg |-> "ignored"]
            /\ UNCHANGED <<identity_state, stored_conf>>
       ELSE /\ last' = [op |-> "propose_identity", msg |-> "proposed"]
            /\ identity_state' = [identity_state EXCEPT ![s] = id2]
            /\ stored_conf' = [stored_conf EXCEPT
                   ![s].name = IF takes_name THEN conf ELSE @,
                   ![s].phone = IF takes_phone THEN conf ELSE @]

\* what a caller may pass as a name, a phone, a confidence
NameTexts == {<<>>, <<" ">>, An \o <<" ">>, <<"B", "a">>}
PhoneTexts == {<<>>, <<" ">> \o GoodPhone, BadPhone, OtherPhone}
ConfidenceInputs == {-5, 5, 20}

\* the sessions' identities do not touch each other: one session is followed
IdentitySessions == {"s1"}

CallProposeIdentity ==
    /\ \E s \in IdentitySessions, n \in NameTexts, p \in PhoneTexts, c \in ConfidenceInputs :
          ProposeIdentity(s, n, p, c)
    /\ UNCHANGED <<storeVars, shared, visits, taskVars, kioskVars, plannerVars, finalizeVars, dashVars, bufVars, rwVars>>

CallConfirmIdentityAny ==
    /\ \E s \in IdentitySessions, n \in NameTexts, p \in PhoneTexts, confirm \in BOOLEAN :
          ConfirmIdentity(s, n, p, confirm)
    /\ UNCHANGED <<storeVars, visits, taskVars, kioskVars, plannerVars, finalizeVars, dashVars, draftVars, bufVars, rwVars>>

\* the planner gives the session a booking result for the identity to invalidate
NextIdentity ==
    \/ CallProposeIdentity
    \/ CallConfirmIdentityAny
    \/ CallScheduleAppointment
    \/ CallRunBooking

SpecIdentity == Init /\ [][NextIdentity]_vars

----------------------------------------------------------------------------
(* The availability aggregator of the dashboard (schedule_logic.py): the     *)
(* free slots of a doctor and their compression into intervals.              *)

\* int() of a text of decimal digits
RECURSIVE int_of(_)
int_of(t) ==
    IF t = <<>> THEN 0
    ELSE 10 * int_of(SubSeq(t, 1, Len(t) - 1))
         + (CHOOSE d \in 0..9 : Digit(d) = t[Len(t)])

\* h, m = hhmm.split(":"); int(h) * 60 + int(m)
to_minutes(hhmm) ==
    LET i == CHOOSE k \in 1..Len(hhmm) : hhmm[k] = ":"
    IN int_of(SubSeq(hhmm, 1, i - 1)) * 60 + int_of(SubSeq(hhmm, i + 1, Len(hhmm)))

\* to_minutes of a slot depends on the slot alone: computed once per grid slot
Minutes == [s \in ALLOWED_SLOT_SET |-> to_minutes(s)]

\* sorted(free_slots, key=to_minutes): a stable insertion of each slot
RECURSIVE insert_by_minutes(_, _)
insert_by_minutes(sorted, s) ==
    IF sorted = <<>> THEN <<s>>
    ELSE IF Minutes[s] < Minutes[Head(sorted)]
    THEN <<s>> \o sorted
    ELSE <<Head(sorted)>> \o insert_by_minutes(Tail(sorted), s)

RECURSIVE sorted_by_minutes(_)
sorted_by_minutes(slots) ==
    IF slots = <<>> THEN <<>>
    ELSE insert_by_minutes(sorted_by_minutes(SubSeq(slots, 1, Len(slots) - 1)),
                           slots[Len(slots)])

\* mutant: a gap of one slot does not end the range
contiguous_over_gap(cur_min, prev_min) == cur_min - prev_min <= 2 * SLOT_MINUTES

\* cur_min - prev_min == SLOT_MINUTES
contiguous(cur_min, prev_min) == cur_min - prev_min = SLOT_MINUTES

\* the loop over free_slots[1:], with the final append
RECURSIVE compress_loop(_, _, _, _)
compress_loop(rest, start, prev, ranges) ==
    IF rest = <<>> THEN Append(ranges, [start |-> start, end |-> prev])
    ELSE IF contiguous(Minutes[Head(rest)], Minutes[prev])
    THEN compress_loop(Tail(rest), start, Head(rest), ranges)
    ELSE compress_loop(Tail(rest), Head(rest), Head(rest),
                       Append(ranges, [start |-> start, end |-> prev]))

_compress_free_slots(free) ==
    IF free = <<>> THEN <<>>
    ELSE LET sorted == sorted_by_minutes(free)
         IN compress_loop(Tail(sorted), Head(sorted), Head(sorted), <<>>)

_compute_availability(booked) ==
    LET booked_set == {booked[i] : i \in 1..Len(booked)}
        free == SelectSeq(ALL_SLOTS, LAMBDA s : s \notin booked_set)
    IN [booked |-> booked, free_slots |-> free, free_intervals |-> _compress_free_slots(free)]

\* SELECT slot_time ... ORDER BY slot_time, for a doctor whose booked slots are
\* the given ones
_get_booked_for_doctor(slots) == SelectSeq(ALL_SLOTS, LAMBDA s : s \in slots)

\* the slots a doctor's bookings are drawn from: the ends of the day, runs of
\* neighbours and single slots
BookedPool == {ALL_SLOTS[i] : i \in {1, 2, 3, 5, 14, 27, 28}}

BookedInputs == SUBSET BookedPool \cup {ALLOWED_SLOT_SET}

\* get_overview for one doctor: the booked slots are read, the availability built
ComputeAvailability(slots) ==
    /\ availability' = _compute_availability(_get_booked_for_doctor(slots))
    /\ last' = [op |-> "_compute_availability", msg |-> ToString(Cardinality(slots))]
    /\ UNCHANGED <<storeVars, identity_state, shared, visits, taskVars, kioskVars, plannerVars,
                   finalizeVars, draftVars, bufVars, rwVars>>

CallComputeAvailability == \E slots \in BookedInputs : ComputeAvailability(slots)

NextAvailability == CallComputeAvailability

SpecAvailability == Init /\ [][NextAvailability]_vars

----------------------------------------------------------------------------
(* The transcript buffer of a session (gemini_kiosk.py): SessionBuf and the  *)
(* conversation_item_added handler that fills it.                            *)

\* lines a transcript may reach in the model
MaxLines == 3

\* SessionBuf.add(role, text): a line "[role] text" unless the text is blank
SessionBuf_add(buf, role, text) ==
    IF strip(text) # <<>>
    THEN [buf EXCEPT !.lines = Append(@, <<role, strip(text)>>)]
    ELSE buf

\* mutant: the item id is recorded but a seen id does not stop the line
SessionBuf_add_again(buf, item_id, role, text) ==
    SessionBuf_add(IF item_id # NULL THEN [buf EXCEPT !.seen_ids = @ \cup {item_id}] ELSE buf,
                   role, text)

\* SessionBuf.add_once(item_id, role, text)
SessionBuf_add_once(buf, item_id, role, text) ==
    IF item_id # NULL /\ item_id \in buf.seen_ids
    THEN buf
    ELSE SessionBuf_add(IF item_id # NULL
                        THEN [buf EXCEPT !.seen_ids = @ \cup {item_id}] ELSE buf,
                        role, text)

\* on_item_added(ev): returns when the entrypoint's closing flag is set; else
\* a non-blank text is added once under the item's id
on_item_added(s, item_role, text_content, iid) ==
    LET role == IF item_role = NULL THEN "unknown" ELSE item_role
        text == strip(text_content)
    IN /\ Len(state[s].lines) < MaxLines
       /\ last' = [op |-> "conversation_item_added", msg |-> role]
       /\ IF closing[s] \/ text = <<>>
          THEN UNCHANGED state
          ELSE state' = [state EXCEPT ![s] = SessionBuf_add_once(@, iid, role, text)]

\* what an event may carry as role, text and item id
ItemRoles == {NULL, "user", "assistant"}
ItemTexts == {<<>>, <<" ">>, <<" ", "o", "k">>}
ItemIds == {NULL, "i1", "i2"}

CallOnItemAdded ==
    /\ \E s \in FinalizeSessions, r \in ItemRoles, t \in ItemTexts, i \in ItemIds :
          on_item_added(s, r, t, i)
    /\ UNCHANGED <<storeVars, identity_state, shared, visits, taskVars, kioskVars,
                   plannerVars, finalizeVars, dashVars, draftVars, closing, rwVars>>

\* conversation events around a finalize_visit, its thread and the late close
NextTranscript ==
    \/ CallOnItemAdded
    \/ FinFinalizeVisit
    \/ FinThread
    \/ FinLateClose

SpecTranscript == Init /\ [][NextTranscript]_vars

----------------------------------------------------------------------------
(* Writers and readers of the bookings table, step by step.  A writer       *)
(* commits its INSERT and then counts it, both under _DB_LOCK; a reader      *)
(* takes no lock.                                                            *)

\* the requests the writers make
RWBookRequests ==
    { Request("H1", taiMuiTyped, "BsA", Date0, Padded0800, NULL),
      Request("H1", Mat, "BsA", Date0, S0800, "TMH"),
      Request("H1", TaiMui, "BsB", Date0, S0800, "TMH") }

\* book_slot up to c.commit(): the row is visible, the version not yet bumped
InsertBooking(w, q) ==
    /\ _DB_LOCK = NULL
    /\ \E res \in {book_slot(bookings, version, q.hospital_code, q.department,
                            q.doctor_name, q.date, q.slot_time, q.department_code)} :
          /\ bookings' = res.bookings
          /\ _DB_LOCK' = IF res.ok THEN w ELSE NULL
          /\ inserted' = IF res.ok
                         THEN [op |-> "book_slot",
                               row |-> CHOOSE r \in res.bookings : r \notin bookings]
                         ELSE None
          /\ last' = [op |-> "book_slot", msg |-> IF res.ok THEN "committed" ELSE res.msg]
    /\ UNCHANGED <<holds, version, now, sessVars, reader, client, bumped>>

\* promote_hold_to_booking up to c.commit()
InsertPromotion(w, s, q) ==
    /\ _DB_LOCK = NULL
    /\ \E res \in {promote_hold_to_booking(bookings, holds, version, now, s,
                                          q.hospital_code, q.department, q.doctor_name,
                                          q.date, q.slot_time, q.department_code)} :
          /\ bookings' = res.bookings
          /\ holds' = res.holds
          /\ _DB_LOCK' = IF res.ok THEN w ELSE NULL
          /\ inserted' = IF res.ok
                         THEN [op |-> "promote_hold_to_booking",
                               row |-> CHOOSE r \in res.bookings : r \notin bookings]
                         ELSE None
          /\ last' = [op |-> "promote_hold_to_booking",
                      msg |-> IF res.ok THEN "committed" ELSE res.msg]
    /\ UNCHANGED <<version, now, sessVars, reader, client, bumped>>

\* _bump_bookings_version() and the return, which releases the lock
BumpVersion(w) ==
    /\ _DB_LOCK = w
    /\ version' = _bump_bookings_version(version)
    /\ bumped' = bumped \cup {[row |-> inserted.row, version |-> version']}
    /\ _DB_LOCK' = NULL
    /\ inserted' = None
    /\ last' = [op |-> inserted.op, msg |-> "booked"]
    /\ UNCHANGED <<bookings, holds, now, sessVars, reader, client>>

\* a session takes a hold (create_hold, under the lock from start to end)
HoldForPromotion(q, s, ttl) ==
    /\ _DB_LOCK = NULL
    /\ CreateHoldStep(q, s, ttl)

\* the rows get_bookings_snapshot selects, as (department, doctor_name, slot_time)
get_bookings_snapshot_rows(bk, hospital_code, departments, date) ==
    LET dep_norms == {_normalize_department(d) : d \in departments}
    IN {<<r.department, r.doctor_name, r.slot_time>> :
           r \in {x \in bk : /\ x.hospital_code = hospital_code
                             /\ x.date = date
                             /\ x.department \in dep_norms}}

\* the rows get_bookings_snapshot_by_codes selects, as (department_code,
\* doctor_name, slot_time); rows without a department_code are left out
get_bookings_snapshot_by_codes_rows(bk, hospital_code, department_codes, date) ==
    LET codes == {c \in department_codes : c # ""}
    IN {<<r.department_code, r.doctor_name, r.slot_time>> :
           r \in {x \in bk : /\ x.hospital_code = hospital_code
                             /\ x.date = date
                             /\ x.department_code \in codes}}

\* the SELECT of the endpoint's snapshot function on the client's query
SnapshotRows(endpoint, bk) ==
    IF endpoint = "names"
    THEN get_bookings_snapshot_rows(bk, QueryHospital, {strip(d) : d \in QueryDepartments}, Date0)
    ELSE get_bookings_snapshot_by_codes_rows(bk, QueryHospital, QueryCodes, Date0)

\* mutant: the rows are selected before the version is read
snapshot_read_order_rows_first == <<"rows", "version">>

\* both snapshot functions read get_bookings_version() first and SELECT after
snapshot_read_order == <<"version", "rows">>

ApiOf(endpoint) == IF endpoint = "names" THEN "api_bookings" ELSE "api_bookings_by_code"

\* api_bookings / api_bookings_by_code with since = the version of the snapshot
\* the client holds: unchanged if that is the current version, else a snapshot
Poll(endpoint) ==
    /\ reader.pc = "idle"
    /\ IF client[endpoint] # None /\ client[endpoint].version = get_bookings_version
       THEN /\ last' = [op |-> ApiOf(endpoint), msg |-> "unchanged"]
            /\ reader' = reader
       ELSE /\ last' = [op |-> ApiOf(endpoint), msg |-> "snapshot"]
            /\ reader' = [reader0 EXCEPT !.pc = "first", !.endpoint = endpoint]
    /\ UNCHANGED <<storeVars, sessVars, _DB_LOCK, inserted, client, bumped>>

\* what a read of the snapshot function stores in its result
SnapshotRead(what, result) ==
    IF what = "version"
    THEN [result EXCEPT !.version = get_bookings_version]
    ELSE [result EXCEPT !.rows = SnapshotRows(result.endpoint, bookings)]

SnapshotFirstRead ==
    /\ reader.pc = "first"
    /\ reader' = [SnapshotRead(snapshot_read_order[1], reader) EXCEPT !.pc = "second"]
    /\ last' = [op |-> ApiOf(reader.endpoint), msg |-> "reading"]
    /\ UNCHANGED <<storeVars, sessVars, _DB_LOCK, inserted, client, bumped>>

\* the second read and the response, which the client keeps
SnapshotSecondRead ==
    /\ reader.pc = "second"
    /\ \E result \in {SnapshotRead(snapshot_read_order[2], reader)} :
          client' = [client EXCEPT ![reader.endpoint] =
                        [version |-> result.version, rows |-> result.rows]]
    /\ reader' = reader0
    /\ last' = [op |-> ApiOf(reader.endpoint), msg |-> "returned"]
    /\ UNCHANGED <<storeVars, sessVars, _DB_LOCK, inserted, bumped>>

NextRW ==
    \/ \E w \in WriterThreads, q \in RWBookRequests : InsertBooking(w, q)
    \/ \E w \in WriterThreads, q \in RWBookRequests : InsertPromotion(w, "s1", q)
    \/ \E w \in WriterThreads : BumpVersion(w)
    \/ \E q \in RWBookRequests : HoldForPromotion(q, "s1", 300)
    \/ \E e \in Endpoints : Poll(e)
    \/ SnapshotFirstRead
    \/ SnapshotSecondRead

SpecRW == Init /\ [][NextRW]_vars

----------------------------------------------------------------------------
(* Vocabulary of the properties *)

\* the slot a row occupies: (hospital_code, doctor_name, date, slot_time)
SlotOf(r) == <<r.hospital_code, r.doctor_name, r.date, r.slot_time>>

\* the slot a request names
SlotAsked(q) == <<q.hospital_code, q.doctor_name, q.date, Stripped[q.slot_time]>>

\* the hold rows a request's lookup finds
HoldsAsked(hd, q) ==
    {h \in hd : /\ SlotOf(h) = SlotAsked(q)
                /\ h.department = Normalized[q.department]}

\* a hold that has not run out at the current time
Live(h) == h.expires_at >= now

K0 == <<"H1", "BsA", Date0, S0800>>

\* the step just taken was a call of the named operation
Called(op) == last'.op = op

\* the option a session's finalize_visit would persist, None if there is none
ChosenOf(s) ==
    IF shared[s].latest_booking = None THEN None ELSE shared[s].latest_booking.chosen

\* the slot of an option
SlotOfOption(o) ==
    LET parts == split_sep(o.slot_time)
    IN <<o.hospital_code, o.doctor_name, parts[1], parts[Len(parts)]>>

----------------------------------------------------------------------------
(* Properties of the booking store *)

\* C1: in every reachable state at most one booking row exists for each
\* (hospital_code, doctor_name, date, slot_time), whatever department name or
\* department_code the book_slot and promote_hold_to_booking calls used.
C1_OneBookingPerSlot ==
    \A r1, r2 \in bookings : SlotOf(r1) = SlotOf(r2) => r1 = r2

\* a promotion by one department path was refused because the slot was already
\* booked by another department path
C1_Witness ==
    /\ last.op = "promote_hold_to_booking"
    /\ last.msg = "already_booked"
    /\ \E r \in bookings, h \in holds :
          SlotOf(r) = SlotOf(h) /\ r.department # h.department

\* C2 (as claimed): when a session has a live hold on the slot of its chosen
\* option and another session has the same slot chosen, the booking row is
\* inserted by the holder's finalize_visit, and the finalize_visit of the other
\* session never commits the slot while the hold is live.
C2_ConcurrentConflict ==
    [][\A s \in Sessions :
          (/\ Called("finalize_visit")
           /\ ~shared[s].closing
           /\ ChosenOf(s) # None
           /\ FinalizeVisit(s)) =>
              \A h \in holds :
                  (Live(h) /\ SlotOf(h) = SlotOfOption(ChosenOf(s))) =>
                      IF h.session_id = SessionIdOf(s)
                      THEN /\ last'.msg = "booked"
                           /\ \E r \in bookings' \ bookings : SlotOf(r) = SlotOf(h)
                      ELSE bookings' = bookings]_vars

\* C3 (as claimed): for each (hospital, doctor, date, slot) there are never two
\* live holds owned by different sessions, and never a live hold together with a
\* booking.
C3_OneLiveHoldOrBooking ==
    /\ \A h1, h2 \in holds :
          (Live(h1) /\ Live(h2) /\ SlotOf(h1) = SlotOf(h2))
              => h1.session_id = h2.session_id
    /\ \A h \in holds, r \in bookings : Live(h) => SlotOf(h) # SlotOf(r)

\* C4 (as claimed): when promote_hold_to_booking succeeds, no hold row remains for
\* the (hospital, doctor, date, slot) and exactly one booking row exists for it.
C4_PromoteLeavesNoHold ==
    [][\A s \in SessionInputs, q \in PromoteRequests :
          (Called("promote_hold_to_booking") /\ last'.msg = "booked" /\ PromoteHoldStep(s, q)) =>
              /\ \A h \in holds' : SlotOf(h) # SlotAsked(q)
              /\ Cardinality({r \in bookings' : SlotOf(r) = SlotAsked(q)}) = 1]_vars

\* what C5 says of every failure: hold_expired deletes the stale row, and no
\* failure touches the bookings or the version
C5_FailureEffects(s, q) ==
    /\ last'.msg = "hold_expired" => HoldsAsked(holds', q) = {}
    /\ last'.msg # "hold_expired" /\ last'.msg # "booked" => holds' = holds
    /\ last'.msg # "booked" => bookings' = bookings /\ version' = version

C6_S1HoldRanOut(q) ==
    /\ now = 70
    /\ SlotAsked(q) = K0
    /\ \E h \in HoldsAsked(holds, q) : h.session_id = "s1" /\ h.expires_at = 60
    /\ \A r \in bookings : SlotOf(r) # K0

\* what a promote_hold_to_booking by s1 returns in the state the step leads to
C6_SubsequentPromote(q) ==
    promote_hold_to_booking(bookings', holds', version', now', "s1",
                            q.hospital_code, q.department, q.doctor_name,
                            q.date, q.slot_time, q.department_code)

\* the first half of the scenario: the create_hold of s2 at time 70 sweeps the
\* hold of s1 and gives the hold to s2
C6_SweepAndTakeOver(q) ==
    /\ last'.msg = "held"
    /\ \A h \in holds' : h.session_id = "s1" => h.expires_at >= now
    /\ \E h \in HoldsAsked(holds', q) : h.session_id = "s2" /\ h.expires_at = 130

\* C6 (as claimed): s1 holds K0 with TTL 60 at time 0; at time 70 the create_hold
\* of s2 on K0 sweeps the hold of s1 and s2 obtains the hold; a subsequent
\* promote_hold_to_booking by s1 on K0 returns hold_expired.
C6_AsClaimed ==
    [][\A q \in Requests, ttl \in TTLInputs :
          (Called("create_hold") /\ C6_S1HoldRanOut(q) /\ CreateHoldStep(q, "s2", ttl)) =>
              /\ C6_SweepAndTakeOver(q)
              /\ C6_SubsequentPromote(q).msg = "hold_expired"]_vars

\* C6 (amended): s1 holds K0 with TTL 60 at time 0; at time 70 the create_hold of
\* s2 on K0 sweeps the hold of s1 and s2 obtains the hold; a subsequent
\* promote_hold_to_booking by s1 on K0 returns held_by_other and changes nothing.
C6_HoldExpiryScenario ==
    [][\A q \in Requests, ttl \in TTLInputs :
          (Called("create_hold") /\ C6_S1HoldRanOut(q) /\ CreateHoldStep(q, "s2", ttl)) =>
              /\ C6_SweepAndTakeOver(q)
              /\ C6_SubsequentPromote(q).msg = "held_by_other"
              /\ C6_SubsequentPromote(q).bookings = bookings'
              /\ C6_SubsequentPromote(q).holds = holds']_vars

\* s2 holds K0 since time 70 and a promotion has just been refused
C6_Witness ==
    /\ last.op = "promote_hold_to_booking"
    /\ last.msg = "held_by_other"
    /\ now = 70
    /\ bookings = {}
    /\ \E h \in holds : SlotOf(h) = K0 /\ h.session_id = "s2" /\ h.held_at = 70
    /\ \A h \in holds : h.session_id = "s2"

\* C7 (as claimed): a hold with expires_at = now is treated as expired: a
\* create_hold that reaches its sweep deletes it, and a promote_hold_to_booking by
\* its owner at that instant returns hold_expired.
C7_ExpiredAtTheInstant ==
    [][/\ \A q \in Requests, s \in SessionInputs, ttl \in TTLInputs :
             (/\ Called("create_hold")
              /\ last'.msg \in {"held", "held_by_other", "already_booked"}
              /\ CreateHoldStep(q, s, ttl))
                 => \A h \in holds \cap holds' : h.expires_at # now
       /\ \A q \in PromoteRequests, s \in SessionInputs :
             (/\ Called("promote_hold_to_booking")
              /\ \E h \in HoldsAsked(holds, q) : h.session_id = s /\ h.expires_at = now
              /\ PromoteHoldStep(s, q))
                 => last'.msg = "hold_expired"]_vars

\* C8: the bookings version never decreases, and every successful booking insert,
\* by book_slot or by promote_hold_to_booking, increases it.
C8_VersionMonotone ==
    [][/\ version' >= version
       /\ Cardinality(bookings') > Cardinality(bookings) => version' > version
       /\ \A q \in BookRequests :
             (Called("book_slot") /\ last'.msg = "booked" /\ BookSlotStep(q))
                 => version' > version
       /\ \A s \in SessionInputs, q \in PromoteRequests :
             (Called("promote_hold_to_booking") /\ last'.msg = "booked" /\ PromoteHoldStep(s, q))
                 => version' > version]_vars

\* a promotion has just made the second booking
C8_Witness ==
    /\ last.op = "promote_hold_to_booking"
    /\ last.msg = "booked"
    /\ Cardinality(bookings) = 2
    /\ version = 2

\* the endpoint's query selects the booking row
Matches(endpoint, r) == SnapshotRows(endpoint, {r}) # {}

\* the snapshot contains the booking row
Contains(snapshot, endpoint, r) == SnapshotRows(endpoint, {r}) \subseteq snapshot.rows

\* a snapshot reporting version N contains every row of its query whose insert
\* caused a bump to a version less than or equal to N
C9_HasBumpedRows(snapshot, endpoint) ==
    \A b \in bumped :
        (b.version <= snapshot.version /\ Matches(endpoint, b.row))
            => Contains(snapshot, endpoint, b.row)

\* C9 (as claimed): a snapshot that reports version N contains every booking row
\* whose insert caused a bump to a version <= N; consequently a client that polls
\* with since equal to its snapshot's version is never told unchanged while a row
\* is missing from what it holds.
C9_AsClaimed ==
    [][\A e \in Endpoints :
          /\ client'[e] # None => C9_HasBumpedRows(client'[e], e)
          /\ (Called(ApiOf(e)) /\ last'.msg = "unchanged" /\ Poll(e)) =>
                 \A r \in bookings : Matches(e, r) => Contains(client[e], e, r)]_vars

\* C9 (amended): a snapshot that reports version N contains every booking row
\* whose insert caused a bump to a version <= N; a client that polls with since
\* equal to its snapshot's version is never told unchanged while a row whose
\* insert has been counted is missing from what it holds (a row that is
\* committed and not yet counted can be missing).
C9_SnapshotHasBumpedRows ==
    [][\A e \in Endpoints :
          /\ client'[e] # None => C9_HasBumpedRows(client'[e], e)
          /\ (Called(ApiOf(e)) /\ last'.msg = "unchanged" /\ Poll(e)) =>
                 \A r \in bookings :
                     (Matches(e, r) /\ (inserted = None \/ inserted.row # r))
                         => Contains(client[e], e, r)]_vars

\* the client, holding a snapshot of version 1 with its row, has just been told
\* unchanged while a writer is between its commit and its bump
C9_Witness ==
    /\ last.msg = "unchanged"
    /\ inserted # None
    /\ \E e \in Endpoints :
          /\ last.op = ApiOf(e)
          /\ client[e] # None
          /\ client[e].version = 1
          /\ client[e].rows # {}

\* what C10 says a cancel leaves alone
C10_Frame(s) ==
    /\ {h \in holds' : h.session_id # s} = {h \in holds : h.session_id # s}
    /\ bookings' = bookings
    /\ version' = version

C11_HoldRefusedWhenBooked ==
    [][\A q \in Requests, s \in SessionInputs, ttl \in TTLInputs :
          (/\ Called("create_hold")
           /\ \E r \in bookings : SlotOf(r) = SlotAsked(q)
           /\ CreateHoldStep(q, s, ttl)) =>
              /\ last'.msg # "held"
              /\ holds' \subseteq holds]_vars

\* the times at which the owning session repeats its call
C12_SecondCallTimes(t) == {t, t + 60, t + 70}

\* C12 (as claimed): after create_hold has succeeded for a session, the same
\* call repeated by that session succeeds, leaves exactly one hold row for the
\* slot (hospital, doctor, date, slot), owned by that session, and its
\* expires_at is the second call's time plus the clamped TTL.
C12_CreateHoldIdempotent ==
    [][\A q \in Requests, s \in Sessions, ttl \in TTLInputs :
          (/\ Called("create_hold")
           /\ CreateHoldStep(q, s, ttl)
           /\ last'.msg = "held") =>
              \A t2 \in C12_SecondCallTimes(now') :
                 \E second \in {create_hold(bookings', holds', t2, q.hospital_code,
                                            q.department, q.doctor_name, q.date,
                                            q.slot_time, s, ttl, q.department_code)} :
                    /\ second.ok
                    /\ Cardinality({h \in second.holds : SlotOf(h) = SlotAsked(q)}) = 1
                    /\ \A h \in second.holds :
                          SlotOf(h) = SlotAsked(q) =>
                             /\ h.session_id = s
                             /\ h.expires_at = t2 + HoldTTL(ttl)]_vars

\* the row book_slot stores for a request
C13_RowOf(q) ==
    [hospital_code |-> q.hospital_code, department |-> Normalized[q.department],
     doctor_name |-> q.doctor_name, date |-> q.date, slot_time |-> Stripped[q.slot_time],
     department_code |-> q.department_code]

\* C13: book_slot is idempotent by failure.  After a successful book_slot the
\* identical call returns (False, "already_booked") and leaves bookings and the
\* version as they are; a book_slot step whose row is already stored returns
\* "already_booked" and changes neither bookings, nor holds, nor the version.
C13_BookSlotIdempotentByFailure ==
    [][\A q \in BookRequests :
          (/\ Called("book_slot")
           /\ BookSlotStep(q)) =>
              /\ last'.msg = "booked" =>
                    \E second \in {book_slot(bookings', version', q.hospital_code,
                                             q.department, q.doctor_name, q.date,
                                             q.slot_time, q.department_code)} :
                       /\ ~second.ok
                       /\ second.msg = "already_booked"
                       /\ second.bookings = bookings'
                       /\ second.version = version'
              /\ C13_RowOf(q) \in bookings =>
                    /\ last'.msg = "already_booked"
                    /\ UNCHANGED <<bookings, holds, version>>]_vars

\* the second identical call has been made: BsB's slot is booked, only the
\* identical request names BsB's slot, and the call was refused
C13_Witness ==
    /\ last.op = "book_slot"
    /\ last.msg = "already_booked"
    /\ bookings = {C13_RowOf(Request("H1", TaiMui, "BsB", Date0, S0800, "TMH"))}
    /\ version = 1

\* C14 (as claimed): every booking row with a non-null department_code, whether
\* inserted by book_slot or by promote_hold_to_booking, carries a code of its
\* hospital's catalog (departments_by_code).
C14_StoredCodesAreCatalogCodes ==
    \A r \in bookings :
       r.department_code # NULL =>
          r.department_code \in DOMAIN get_hospital_meta(r.hospital_code).departments_by_code

\* the hospitals a backfill call works on
C15_Targets(h) == IF h = NULL THEN {r.hospital_code : r \in bookings} ELSE {h}

\* the display names of a hospital's catalog
C15_DisplayNames(h) ==
    LET by_code == get_hospital_meta(h).departments_by_code
    IN {by_code[c].name : c \in DOMAIN by_code}

\* the rows a backfill step rewrote
C15_Changed == {r \in bookings : r \notin bookings'}

C16_SweptAfterHoldCalls ==
    [][last'.op \in {"create_hold", "promote_hold_to_booking"} =>
          \A h \in holds' : ~(h.expires_at < now')]_vars

\* the part of it about promote_hold_to_booking alone
C16_SweptAfterPromote ==
    [][last'.op = "promote_hold_to_booking" =>
          \A h \in holds' : ~(h.expires_at < now')]_vars

\* the part of it about create_hold alone
C16_SweptAfterCreateHold ==
    [][last'.op = "create_hold" =>
          \A h \in holds' : ~(h.expires_at < now')]_vars

\* C17 (as claimed): a session that has been closed, by the finalize pipeline,
\* owns no hold row any more, also when the promotion of its hold failed or its
\* booking was invalidated by an identity change after choose_booking_option.
C17_ClosedSessionOwnsNoHold ==
    \A s \in Sessions :
       shared[s].closing => \A h \in holds : h.session_id # SessionIdOf(s)

\* the same, for the case that finalize_visit found the slot already booked
C17_NoHoldAfterFailedPromotion ==
    \A s \in Sessions :
       (/\ shared[s].closing
        /\ last.op = "finalize_visit"
        /\ last.msg = "already_booked") =>
          \A h \in holds : h.session_id # SessionIdOf(s)

\* a tool of session s is called in the step
C18_ToolStep(s) ==
    \/ \E n \in NameInputs, p \in PhoneInputs : ConfirmIdentity(s, n, p, TRUE)
    \/ ScheduleAppointment(s)
    \/ \E i \in OptionIndexInputs : ChooseBookingOption(s, i)
    \/ FinalizeVisit(s)

\* what a tool answers when it refuses to act
C18_Refusals ==
    {"closing", "identity_not_confirmed", "booking_in_progress", "no_booking_options",
     "no_options", "invalid_index", "already_confirmed"}

\* closing, once set, stays set
C18_ClosingOneWay ==
    [][\A s \in Sessions : shared[s].closing => shared'[s].closing]_vars

\* C18 (as claimed): closing is one-way, and while it is set every tool of the
\* session returns a refusal and changes neither the session's state nor the
\* store.
C18_ClosingRefusesTools ==
    [][\A s \in Sessions :
          shared[s].closing =>
             /\ shared'[s].closing
             /\ C18_ToolStep(s) =>
                   /\ last'.msg \in C18_Refusals
                   /\ UNCHANGED <<identity_state, shared, visits, bookings, holds, version>>]_vars

\* C19 (as claimed): finalize_visit called while allow_finalize is false or
\* latest_booking is absent returns a refusal, persists no visit row, inserts no
\* booking and does not set closing.
C19_FinalizeRefusedWithoutBooking ==
    [][\A s \in Sessions :
          (/\ Called("finalize_visit")
           /\ ~shared[s].allow_finalize \/ shared[s].latest_booking = None
           /\ FinalizeVisit(s)) =>
              /\ last'.msg = "closing"
              /\ visits' = visits
              /\ bookings' = bookings
              /\ shared'[s].closing = shared[s].closing]_vars

\* the part of it that the code keeps: such a call inserts no booking
C19_NoBookingWithoutResult ==
    [][\A s \in Sessions :
          (/\ Called("finalize_visit")
           /\ ~shared[s].allow_finalize \/ shared[s].latest_booking = None
           /\ FinalizeVisit(s)) =>
              bookings' = bookings]_vars

\* "choose must precede finalize": a finalize_visit that inserts a booking comes
\* after a choose_booking_option that took the hold it promotes
C19_ChoosePrecedesFinalize ==
    [][\A s \in Sessions :
          (/\ Called("finalize_visit")
           /\ FinalizeVisit(s)
           /\ bookings' # bookings) =>
              shared[s].latest_booking.soft_hold # NULL]_vars

\* C20 (as claimed): within one session at most one planner run (_run_booking
\* task) is active at any time, however the schedule_appointment invocations
\* of the session interleave.
C20_OnePlannerRun == \A s \in Sessions : active_runs[s] <= 1

\* the part of it about calls that do not overlap: a schedule_appointment that
\* reads booking_in_progress while it is set answers booking_in_progress and
\* starts no run
C20_RefusedWhileFlagSet ==
    [][\A s \in Sessions, i \in Invocations :
          (/\ Called("schedule_appointment")
           /\ identity_state[s].identity_confirmed
           /\ shared[s].booking_in_progress
           /\ ScheduleEnter(s, i)) =>
              /\ last'.msg = "booking_in_progress"
              /\ UNCHANGED <<invocation, active_runs>>]_vars

\* a planner run is active while booking_in_progress is not set
C20_RunActiveFlagCleared ==
    \A s \in Sessions : active_runs[s] > 0 => shared[s].booking_in_progress

\* C21 (as claimed): whenever identity_confirmed is true, the confirmed name is
\* not empty and the confirmed phone matches the phone pattern, for every
\* sequence of propose_identity and confirm_identity calls.
C21_ConfirmedIdentityValid ==
    \A s \in Sessions :
       identity_state[s].identity_confirmed =>
          /\ identity_state[s].patient_name # <<>>
          /\ PHONE_RE_FULL(identity_state[s].phone)

\* the half of it about the name
C21_ConfirmedNameNotEmpty ==
    \A s \in Sessions :
       identity_state[s].identity_confirmed => identity_state[s].patient_name # <<>>

\* the value a caller passed, as confirm_identity reads it: blanks around it
\* do not count, a phone that is not a mobile number is no value
C22_NameGiven(n) == rstrip(lstrip(n))
C22_PhoneGiven(p) == IF PHONE_RE_FULL(rstrip(lstrip(p))) THEN rstrip(lstrip(p)) ELSE <<>>

\* C22: on a confirmed identity, confirm_identity with a name or a valid phone
\* that differs from the confirmed one updates the identity and, in the same
\* step, empties latest_booking and clears allow_finalize; with values that do
\* not differ, identity, latest_booking and allow_finalize stay as they are.
C22_ReconfirmInvalidatesBooking ==
    [][\A s \in IdentitySessions, n \in NameTexts, p \in PhoneTexts, c \in BOOLEAN :
          (/\ Called("confirm_identity")
           /\ identity_state[s].identity_confirmed
           /\ ConfirmIdentity(s, n, p, c)) =>
              LET name == C22_NameGiven(n)
                  phone == C22_PhoneGiven(p)
                  name_differs == name # <<>> /\ name # identity_state[s].patient_name
                  phone_differs == phone # <<>> /\ phone # identity_state[s].phone
              IN IF name_differs \/ phone_differs
                 THEN /\ name_differs => identity_state'[s].patient_name = name
                      /\ phone_differs => identity_state'[s].phone = phone
                      /\ ~name_differs => identity_state'[s].patient_name = identity_state[s].patient_name
                      /\ ~phone_differs => identity_state'[s].phone = identity_state[s].phone
                      /\ identity_state'[s].identity_confirmed
                      /\ shared'[s].latest_booking = None
                      /\ ~shared'[s].allow_finalize
                 ELSE /\ identity_state'[s] = identity_state[s]
                      /\ shared'[s] = shared[s]]_vars

\* a confirmed identity with a booking result got another phone: the result
\* is gone while the identity stays confirmed
C22_Witness ==
    /\ last.op = "confirm_identity"
    /\ last.msg = "reconfirmed"
    /\ identity_state["s1"].identity_confirmed
    /\ identity_state["s1"].phone = OtherPhone
    /\ identity_state["s1"].draft_phone = GoodPhone
    /\ shared["s1"].latest_booking = None
    /\ ~shared["s1"].allow_finalize
    /\ ~shared["s1"].booking_in_progress

\* C23 (as claimed): whenever allow_finalize is true, latest_booking is present
\* and contains a chosen option; a planner run that returns an error document
\* or no option does not make allow_finalize true.
C23_AllowFinalizeNeedsChosen ==
    \A s \in Sessions :
       shared[s].allow_finalize =>
          /\ shared[s].latest_booking # None
          /\ shared[s].latest_booking.chosen # None

\* the half of it that the code keeps: allow_finalize comes with a result
C23_AllowFinalizeNeedsResult ==
    \A s \in Sessions :
       shared[s].allow_finalize => shared[s].latest_booking # None

\* the generate_reply calls issued through the gate and not yet ended
C24_InFlight == {c \in GateCallers : gate_pc[c] \in {"attempt1", "attempt2"}}

C25_InFreeMap(sd, o) ==
    \E h \in sd.hospitals : \E dep \in h.departments : \E d \in dep.doctors :
       /\ h.hospital_code = o.hospital_code
       /\ dep.department_code = o.department_code
       /\ d.name = o.doctor_name
       /\ \E i \in 1..Len(d.free_slots) : d.free_slots[i] = option_slot(o)

\* C25: after the Stage-2 sanitization of any reasoner output every option left
\* names a hospital, department_code, doctor and slot of the free-slot map of
\* the schedule document, chosen is one of the options left or null, and with
\* no option left chosen is null.
C25_SanitizedOptionsInFreeMap ==
    (result_dict # None /\ result_dict.error = NULL) =>
       /\ \A i \in 1..Len(result_dict.options) :
             C25_InFreeMap(schedule_data, result_dict.options[i])
       /\ \/ result_dict.chosen = None
          \/ \E i \in 1..Len(result_dict.options) :
                result_dict.options[i] = result_dict.chosen
       /\ result_dict.options = <<>> => result_dict.chosen = None

\* the part of C25 the code keeps: hospital, department_code and doctor of
\* every option left are in the document, a time that is given is free, and
\* chosen is one of the options left or null
C25_SanitizedExceptEmptyTime ==
    (result_dict # None /\ result_dict.error = NULL) =>
       /\ \A i \in 1..Len(result_dict.options) :
             \/ C25_InFreeMap(schedule_data, result_dict.options[i])
             \/ /\ option_slot(result_dict.options[i]) = <<>>
                /\ option_doctor_entries(schedule_data, result_dict.options[i]) # {}
       /\ \/ result_dict.chosen = None
          \/ \E i \in 1..Len(result_dict.options) :
                result_dict.options[i] = result_dict.chosen
       /\ result_dict.options = <<>> => result_dict.chosen = None

\* an option was dropped and chosen moved to the first option left
C25_Witness ==
    /\ last.op = "_stage2_build_booking"
    /\ result_dict.error = NULL
    /\ Len(result_dict.options) = 1
    /\ result_dict.options[1].doctor_name = "BsA"
    /\ result_dict.options[1].department_code = "MAT"
    /\ result_dict.chosen = result_dict.options[1]

\* the slots of a doctor that are booked or held live on the date of the document
C26_Blocked(hospital_code, doctor_name) ==
    {r.slot_time : r \in {b \in bookings : /\ b.hospital_code = hospital_code
                                           /\ b.doctor_name = doctor_name
                                           /\ b.date = schedule_data.date}}
    \cup {r.slot_time : r \in {h \in holds : /\ h.hospital_code = hospital_code
                                             /\ h.doctor_name = doctor_name
                                             /\ h.date = schedule_data.date
                                             /\ ~Expired(h.expires_at, now)}}

\* the same, counting only the rows stored under the department code
C26_BlockedUnderCode(hospital_code, department_code, doctor_name) ==
    {r.slot_time : r \in {b \in bookings : /\ b.hospital_code = hospital_code
                                           /\ b.doctor_name = doctor_name
                                           /\ b.department_code = department_code
                                           /\ b.date = schedule_data.date}}
    \cup {r.slot_time : r \in {h \in holds : /\ h.hospital_code = hospital_code
                                             /\ h.doctor_name = doctor_name
                                             /\ h.department_code = department_code
                                             /\ h.date = schedule_data.date
                                             /\ ~Expired(h.expires_at, now)}}

C26_SlotSet(free) == {free[i] : i \in 1..Len(free)}

C26_FreeSlotsExcludeBlockedUnderCode ==
    last.op = "_gather_schedule" =>
       \A h \in schedule_data.hospitals : \A dep \in h.departments : \A d \in dep.doctors :
          C26_SlotSet(d.free_slots) =
             ALLOWED_SLOT_SET \ C26_BlockedUnderCode(h.hospital_code, dep.department_code, d.name)

\* a document built while a doctor of it has a booking and another a live hold
C26_Witness ==
    /\ last.op = "_gather_schedule"
    /\ \E h \in schedule_data.hospitals : \E dep \in h.departments :
          /\ \E d \in dep.doctors : C26_BlockedUnderCode(h.hospital_code, dep.department_code, d.name) # {}
          /\ \E d \in dep.doctors : Len(d.free_slots) = Len(ALL_SLOTS)
    /\ \E r \in holds : ~Expired(r.expires_at, now)

\* C27: every accepted schedule_appointment is followed by a booking_result or
\* a booking_error and by booking_in_progress back at false; a failure of the
\* reasoner, raised or returned as an error document, gives booking_error and
\* not booking_result, and does not set closing.
C27_PlannerRunReported ==
    /\ [][\A s \in Sessions :
            /\ RunBookingTask(s, TRUE, None) =>
                  /\ last'.msg = "booking_error"
                  /\ shared'[s].closing = shared[s].closing
            /\ \A result \in BookingResults :
                  (RunBookingTask(s, FALSE, result) /\ result.error # NULL) =>
                     /\ last'.msg = "booking_error"
                     /\ shared'[s].closing = shared[s].closing]_vars
    /\ \A s \in Sessions :
          shared[s].booking_in_progress ~> ~shared[s].booking_in_progress

\* the part of C27 the code keeps: a raised failure gives booking_error, no
\* planner run sets closing, a run that reports booking_result has stored the
\* document it reports, and booking_in_progress returns to false
C27_RaisedFailureReported ==
    /\ [][\A s \in Sessions :
            /\ RunBookingTask(s, TRUE, None) =>
                  /\ last'.msg = "booking_error"
                  /\ shared'[s].closing = shared[s].closing
                  /\ shared'[s].latest_booking = shared[s].latest_booking
            /\ \A result \in BookingResults :
                  RunBookingTask(s, FALSE, result) =>
                     /\ last'.msg = "booking_result"
                     /\ shared'[s].closing = shared[s].closing
                     /\ ~shared'[s].booking_in_progress]_vars
    /\ \A s \in Sessions :
          shared[s].booking_in_progress ~> ~shared[s].booking_in_progress

\* C28: once finalize_visit is accepted the teardown is scheduled in the end,
\* whatever step of the background finalizer fails, and a visit row is
\* written, unless the write of the minimal fallback payload itself failed.
C28_TeardownAndVisitAfterFinalize ==
    /\ \A s \in FinalizeSessions :
          (finalize_thread[s].pc = "running") ~> (teardown[s] # "none")
    /\ [](\A s \in FinalizeSessions :
             (finalize_thread[s].pc = "done" /\ "save_fallback" \notin finalize_thread[s].failed)
                => \E v \in visits : v.session = s)

\* the part of C28 the code keeps: the teardown is scheduled after every run of
\* the thread, and a visit row is written whenever the one save_visit call of
\* the path succeeds, whichever earlier step failed
C28_TeardownScheduled ==
    /\ \A s \in FinalizeSessions :
          (finalize_thread[s].pc = "running") ~> (teardown[s] # "none")
    /\ [](\A s \in FinalizeSessions :
             finalize_thread[s].pc = "done" =>
                /\ teardown[s] # "none"
                /\ "save_visit" \notin finalize_thread[s].failed
                      => \E v \in visits : v.session = s)

\* the thread ran with a failed summary and a failed customer lookup, wrote the
\* visit for the id UNKNOWN, and the session was closed
C28_Witness ==
    /\ finalize_thread["s1"].pc = "done"
    /\ finalize_thread["s1"].failed = {"summary", "customer"}
    /\ teardown["s1"] = "closed"
    /\ \E v \in visits : v.customer_id = <<"UNKNOWN">> /\ v.summary = "raw_transcript"

\* the key K of an option: hospital, doctor, date, slot
C29_Key(o) ==
    LET parts == split_sep(o.slot_time)
    IN <<o.hospital_code, o.doctor_name, parts[1], parts[Len(parts)]>>

\* the booking_index of K
C29_Index(o) ==
    LET parts == split_sep(o.slot_time)
    IN [hospital_code |-> o.hospital_code, department_code |-> o.department_code,
        doctor_name |-> o.doctor_name, date |-> parts[1], slot_time |-> parts[Len(parts)]]

C29_HoldsOf(o) == {h \in holds : bookings_pk(h) = C29_Key(o)}

C29_BookingsOf(o) == {b \in bookings : bookings_pk(b) = C29_Key(o)}

\* the session has chosen an option and got the hold, and has not finalized
C29_Chosen(s) ==
    /\ ~shared[s].closing
    /\ last.op = "choose_booking_option" /\ last.msg = "ok"
    /\ shared[s].latest_booking.soft_hold = "held"

\* the thread of the session was started with an option chosen and held
C29_Finalized(s) ==
    /\ finalize_thread[s].pc # "none"
    /\ finalize_thread[s].latest_booking # None
    /\ finalize_thread[s].latest_booking.soft_hold = "held"

\* between choose and finalize one hold row for K and no booking row
C29_OneHoldBetween ==
    \A s \in FinalizeSessions :
       C29_Chosen(s) =>
          /\ Cardinality(C29_HoldsOf(shared[s].latest_booking.chosen)) = 1
          /\ C29_BookingsOf(shared[s].latest_booking.chosen) = {}

\* finalize_visit of the option chosen and held: no hold row for K is left,
\* one booking row for K exists, the version is one more than before
C29_FinalizeStep(s) ==
    (/\ ~shared[s].closing
     /\ shared[s].latest_booking # None
     /\ shared[s].latest_booking.soft_hold = "held"
     /\ FinalizeVisitStart(s))
    => /\ {h \in holds' : bookings_pk(h) = C29_Key(shared[s].latest_booking.chosen)} = {}
       /\ Cardinality({b \in bookings' :
                          bookings_pk(b) = C29_Key(shared[s].latest_booking.chosen)}) = 1
       /\ version' = version + 1
       /\ shared'[s].closing

\* after the thread ran without a failure a visit row carries the booking
\* result whose chosen option is K
C29_VisitCarriesBooking ==
    \A s \in FinalizeSessions :
       (C29_Finalized(s) /\ finalize_thread[s].pc = "done" /\ finalize_thread[s].failed = {})
          => \E v \in visits : v.session = s /\ v.booking = finalize_thread[s].latest_booking

\* after the thread ran without a failure a visit row has the booking_index K
C29_VisitHasIndex ==
    \A s \in FinalizeSessions :
       (C29_Finalized(s) /\ finalize_thread[s].pc = "done" /\ finalize_thread[s].failed = {})
          => \E v \in visits :
                /\ v.session = s
                /\ v.booking_index = C29_Index(finalize_thread[s].latest_booking.chosen)

\* C29: a single session confirms, schedules, chooses the option with key K and
\* finalizes: one hold row for K between choose and finalize and none after,
\* one booking row for K after finalize, the version up by exactly 1, and a
\* visit row whose booking_index equals K persisted.
C29_HappyPath ==
    /\ []C29_OneHoldBetween
    /\ [][\A s \in FinalizeSessions : C29_FinalizeStep(s)]_vars
    /\ []C29_VisitHasIndex

\* the store and the visit row on the happy path, without the booking_index
C29_HappyPathWithoutIndex ==
    /\ []C29_OneHoldBetween
    /\ [][\A s \in FinalizeSessions : C29_FinalizeStep(s)]_vars
    /\ []C29_VisitCarriesBooking

\* the happy path was walked to its end
C29_Witness ==
    /\ C29_Finalized("s1")
    /\ finalize_thread["s1"].pc = "done"
    /\ finalize_thread["s1"].failed = {}
    /\ teardown["s1"] = "closed"
    /\ version = 1
    /\ holds = {}

\* another session has a live hold on the key of the option
C30_HeldByOther(s, o) ==
    \E h \in holds : /\ h.session_id # SessionIdOf(s)
                     /\ ~Expired(h.expires_at, now)
                     /\ bookings_pk(h) = C29_Key(o)

\* C30: when another session has a live hold on the key of the option,
\* choose_booking_option of session S2 for that option reports held_by_other,
\* leaves S2 without a hold on the key, and does not make the option chosen and
\* finalizable.
C30_ChooseReportsHeldByOther ==
    [][\A s \in Sessions, i \in OptionIndexInputs :
          (/\ shared[s].latest_booking # None
           /\ i < Len(shared[s].latest_booking.options)
           /\ C30_HeldByOther(s, shared[s].latest_booking.options[i + 1])
           /\ ChooseBookingOption(s, i))
          => /\ last'.msg = "held_by_other"
             /\ ~shared'[s].allow_finalize
             /\ ~\E h \in holds' :
                   /\ h.session_id = SessionIdOf(s)
                   /\ bookings_pk(h) = C29_Key(shared[s].latest_booking.options[i + 1])]_vars

\* what the code does there when create_hold refuses: the refusal is recorded
\* in soft_hold of the result, the session gets no hold on the key, and the
\* tool still answers ok and allows finalize
C30_RefusalOnlyRecorded ==
    [][\A s \in Sessions, i \in OptionIndexInputs :
          (/\ shared[s].latest_booking # None
           /\ i < Len(shared[s].latest_booking.options)
           /\ ChooseBookingOption(s, i)
           /\ shared'[s].latest_booking.soft_hold = "held_by_other")
          => /\ last'.msg = "ok"
             /\ shared'[s].allow_finalize
             /\ C30_HeldByOther(s, shared[s].latest_booking.options[i + 1])
             /\ ~\E h \in holds' :
                   /\ h.session_id = SessionIdOf(s)
                   /\ bookings_pk(h) = C29_Key(shared[s].latest_booking.options[i + 1])]_vars

\* session S2 chose an option another session holds
C30_Witness ==
    /\ last.op = "choose_booking_option"
    /\ \E s \in Sessions :
          /\ shared[s].latest_booking # None
          /\ shared[s].latest_booking.soft_hold = "held_by_other"
          /\ shared[s].allow_finalize
          /\ \E h \in holds : h.session_id # SessionIdOf(s)

C31_Free == {availability.free_slots[i] : i \in 1..Len(availability.free_slots)}

\* the grid times from start to end of an interval, in steps of SLOT_MINUTES
C31_Covered(iv) ==
    {strftime_HM(m) : m \in {t \in Minutes[iv.start]..Minutes[iv.end] :
                                (t - Minutes[iv.start]) % SLOT_MINUTES = 0}}

\* C31: for every list of booked slots, each interval of free_intervals covers
\* only free slots (every grid time from start to end is in free_slots), every
\* free slot lies in exactly one interval, and no two intervals are adjacent on
\* the grid.
C31_IntervalsCoverFreeSlots ==
    availability # None =>
       LET ivs == availability.free_intervals IN
       /\ \A i \in 1..Len(ivs) :
             /\ Minutes[ivs[i].start] <= Minutes[ivs[i].end]
             /\ ivs[i].end \in C31_Covered(ivs[i])
             /\ C31_Covered(ivs[i]) \subseteq C31_Free
       /\ \A s \in C31_Free :
             Cardinality({i \in 1..Len(ivs) : s \in C31_Covered(ivs[i])}) = 1
       /\ \A i, j \in 1..Len(ivs) :
             i # j => /\ Minutes[ivs[j].start] - Minutes[ivs[i].end] # SLOT_MINUTES
                      /\ C31_Covered(ivs[i]) \cap C31_Covered(ivs[j]) = {}

\* the bookings split the day into four intervals, one of them a single slot
C31_Witness ==
    /\ availability # None
    /\ Len(availability.booked) = 3
    /\ Len(availability.free_intervals) = 4
    /\ \E i \in 1..4 : availability.free_intervals[i].start = availability.free_intervals[i].end


----------------------------------------------------------------------------
\* C32: propose_identity replaces an existing draft name or draft phone only
\* when the new confidence is at least the confidence under which that draft
\* value was stored, and once the identity is confirmed it changes no identity
\* field and answers ignored.
C32_ReplacesDraft(s, field) ==
    /\ identity_state[s][field] # None
    /\ identity_state'[s][field] # identity_state[s][field]

C32_DraftReplacedAtStoredConfidence ==
    [][\A s \in IdentitySessions :
          last'.op = "propose_identity" =>
             /\ C32_ReplacesDraft(s, "draft_name") => stored_conf'[s].name >= stored_conf[s].name
             /\ C32_ReplacesDraft(s, "draft_phone") => stored_conf'[s].phone >= stored_conf[s].phone
             /\ identity_state[s].identity_confirmed =>
                   /\ identity_state' = identity_state
                   /\ last'.msg = "ignored"]_vars

\* what the code keeps: a draft is replaced only at a confidence not below the
\* one draft_conf the two fields share, which a first name of the same call
\* has just set to the new confidence; a confirmed identity is left alone
C32_DraftReplacedAtSharedConfidence ==
    [][\A s \in IdentitySessions :
          last'.op = "propose_identity" =>
             /\ C32_ReplacesDraft(s, "draft_name") =>
                   stored_conf'[s].name >= identity_state[s].draft_conf
             /\ C32_ReplacesDraft(s, "draft_phone") =>
                   \/ stored_conf'[s].phone >= identity_state[s].draft_conf
                   \/ /\ identity_state[s].draft_name = None
                      /\ \E n \in NameTexts \ {<<>>}, p \in PhoneTexts, c \in ConfidenceInputs :
                            ProposeIdentity(s, n, p, c)
             /\ identity_state[s].identity_confirmed =>
                   /\ identity_state' = identity_state
                   /\ last'.msg = "ignored"]_vars

\* a draft name stored at a confidence above the shared draft_conf
C32_Witness ==
    \E s \in IdentitySessions :
       /\ identity_state[s].draft_name # None
       /\ stored_conf[s].name > identity_state[s].draft_conf


----------------------------------------------------------------------------
\* the promotion finalize_visit of session s asks of the store for the chosen
\* option of its booking result
C33_Promotion(s) ==
    LET chosen == shared[s].latest_booking.chosen
        parts == split_sep(chosen.slot_time)
    IN promote_hold_to_booking(bookings, holds, version, now, SessionIdOf(s),
                               chosen.hospital_code, chosen.department, chosen.doctor_name,
                               parts[1], parts[Len(parts)], chosen.department_code)

C33_HasChosen(s) ==
    /\ ~shared[s].closing
    /\ shared[s].latest_booking # None
    /\ shared[s].latest_booking.chosen # None

\* C33: in finalize_visit the direct book_slot is made only after
\* promote_hold_to_booking for the same key answered a failure in the same
\* finalize, never when the promotion succeeded; one finalize inserts at most
\* one booking row and bumps the version at most once.
C33_DirectOnlyAfterFailedPromotion ==
    [][\A s \in Sessions :
          (Called("finalize_visit") /\ C33_HasChosen(s) /\ FinalizeVisit(s)) =>
             /\ FinalizePersist(s).mode = "direct_fallback" => ~C33_Promotion(s).ok
             /\ C33_Promotion(s).ok =>
                   /\ FinalizePersist(s).mode = "promote_hold"
                   /\ bookings' = C33_Promotion(s).bookings
                   /\ holds' = C33_Promotion(s).holds
                   /\ version' = C33_Promotion(s).version
             /\ bookings \subseteq bookings'
             /\ Cardinality(bookings' \ bookings) <= 1
             /\ version' \in {version, version + 1}
             /\ version' = version + Cardinality(bookings' \ bookings)]_vars

\* a finalize whose promotion was refused booked the slot directly
C33_Witness ==
    /\ last.op = "finalize_visit"
    /\ last.msg = "booked"
    /\ \E s \in Sessions :
          /\ shared[s].closing
          /\ \E h \in holds : h.session_id # SessionIdOf(s)
          /\ \E b \in bookings, h \in holds : bookings_pk(b) = bookings_pk(h)


----------------------------------------------------------------------------
\* C34: after finalize_visit set closing, a conversation_item_added event is
\* ignored: it appends no line to the transcript buffer and adds no id to
\* seen_ids.
C34_EventsIgnoredWhileClosing ==
    [][\A s \in FinalizeSessions :
          (shared[s].closing /\ Called("conversation_item_added")) =>
             state'[s] = state[s]]_vars

\* the flag the handler reads is the entrypoint's own: no step sets it
C34_HandlerFlagNeverSet == \A s \in Sessions : ~closing[s]

\* an item id is seen once: with its id in seen_ids an event changes nothing
C34_SeenItemIgnored ==
    [][\A s \in FinalizeSessions, r \in ItemRoles, t \in ItemTexts, i \in ItemIds :
          (i \in state[s].seen_ids /\ on_item_added(s, r, t, i)) =>
             state'[s] = state[s]]_vars

\* a line was added to the transcript of a session that is closing
C34_Witness ==
    \E s \in FinalizeSessions :
       /\ shared[s].closing
       /\ last.op = "conversation_item_added"
       /\ state[s].lines # <<>>


----------------------------------------------------------------------------
\* a finalize_visit called while the session is closing answers the refusal
\* and promotes, books, starts and saves nothing
C35_LaterFinalizeRefused(s) ==
    (shared[s].closing /\ FinalizeVisitStart(s)) =>
       /\ last'.msg = "closing"
       /\ UNCHANGED <<bookings, holds, version, visits, finalize_thread, shared>>

\* the finalizer thread starts only in a step that finds the session not
\* closing and leaves it closing; closing is never taken back
C35_ThreadStartsOnce(s) ==
    /\ (finalize_thread'[s].pc = "running" /\ finalize_thread'[s] # finalize_thread[s]) =>
          /\ finalize_thread[s].pc = "none"
          /\ ~shared[s].closing
          /\ shared'[s].closing
    /\ shared[s].closing => shared'[s].closing

C35_OneVisit == \A s \in FinalizeSessions : Cardinality({v \in visits : v.session = s}) <= 1

\* C35: whatever the sequence of finalize_visit calls of a session, at most one
\* finalizer thread is started and at most one visit persisted; the accepted
\* call sets closing in the same step, before any other tool call runs, and
\* every later finalize_visit answers the refusal without promoting, booking
\* or saving.
C35_FinalizeAtMostOnce ==
    /\ [][\A s \in FinalizeSessions :
             C35_LaterFinalizeRefused(s) /\ C35_ThreadStartsOnce(s)]_vars
    /\ []C35_OneVisit

\* a finalize_visit was refused after the thread of the first had saved a visit
C35_Witness ==
    \E s \in FinalizeSessions :
       /\ last = [op |-> "finalize_visit", msg |-> "closing"]
       /\ finalize_thread[s].pc = "done"
       /\ \E v \in visits : v.session = s


----------------------------------------------------------------------------
C36_HoldsOf(hd, s) == {h \in hd : h.session_id = SessionIdOf(s)}

C36_OneHoldPerSession == \A s \in Sessions : Cardinality(C36_HoldsOf(holds, s)) <= 1

\* an accepted choose_booking_option leaves the session no hold but one on the
\* key of the option just chosen
C36_ChooseReplacesHold(s) ==
    (Called("choose_booking_option") /\ last'.msg = "ok"
        /\ \E i \in OptionIndexInputs : ChooseBookingOption(s, i)) =>
       \A h \in C36_HoldsOf(holds', s) :
          LET chosen == shared'[s].latest_booking.chosen
              parts == split_sep(chosen.slot_time)
          IN /\ h.hospital_code = chosen.hospital_code
             /\ h.department = Normalized[chosen.department]
             /\ h.doctor_name = chosen.doctor_name
             /\ h.date = parts[1]
             /\ h.slot_time = Stripped[parts[Len(parts)]]

\* C36: in every reachable state a session owns at most one hold row;
\* choose_booking_option cancels the session's holds before it creates the new
\* one, so choosing option j after option i leaves no hold on the key of i.
C36_AtMostOneHoldPerSession ==
    /\ []C36_OneHoldPerSession
    /\ [][\A s \in Sessions : C36_ChooseReplacesHold(s)]_vars

\* both sessions hold a slot, one of them the second option of its result
C36_Witness ==
    /\ \A s \in Sessions : Cardinality(C36_HoldsOf(holds, s)) = 1
    /\ \E s \in Sessions :
          /\ shared[s].latest_booking # None
          /\ Len(shared[s].latest_booking.options) >= 2
          /\ shared[s].latest_booking.chosen = shared[s].latest_booking.options[2]
          /\ shared[s].latest_booking.soft_hold = "held"


----------------------------------------------------------------------------
C37_Refusals == {"identity_not_confirmed", "booking_in_progress", "duplicate_booking"}

C37_Refused(s) ==
    /\ Called("schedule_appointment")
    /\ last'.msg \in C37_Refusals
    /\ \E i \in Invocations : ScheduleEnter(s, i)

\* C37: a refused schedule_appointment (identity_not_confirmed,
\* booking_in_progress, duplicate_booking) leaves latest_booking,
\* allow_finalize, booking_in_progress and the transcript as they were.
C37_RefusedScheduleChangesNothing ==
    [][\A s \in Sessions :
          C37_Refused(s) =>
             /\ shared'[s].latest_booking = shared[s].latest_booking
             /\ shared'[s].allow_finalize = shared[s].allow_finalize
             /\ shared'[s].booking_in_progress = shared[s].booking_in_progress
             /\ state'[s] = state[s]]_vars

\* what the code keeps: a refusal leaves booking_in_progress and the transcript
\* as they were and the session without a result and without allow_finalize
C37_RefusedScheduleDropsResult ==
    [][\A s \in Sessions :
          C37_Refused(s) =>
             /\ shared'[s].latest_booking = None
             /\ ~shared'[s].allow_finalize
             /\ shared'[s].booking_in_progress = shared[s].booking_in_progress
             /\ state'[s] = state[s]]_vars


----------------------------------------------------------------------------
\* what identifies an option: hospital, department code, doctor, slot
C38_Key(o) == <<option_hosp(o), o.department_code, o.doctor_name, option_slot(o)>>

\* the chosen option of the answer is one of the options that pass validation
C38_ChosenSurvives(sd, raw) ==
    /\ raw.chosen # None
    /\ \E i \in 1..Len(valid_opts(sd, raw.options)) :
          C38_Key(valid_opts(sd, raw.options)[i]) = C38_Key(raw.chosen)

\* C38: Stage-2 sanitization keeps the reasoner's chosen option whenever it
\* survives validation (same hospital, department_code, doctor and slot as a
\* surviving option); it is not replaced by the first surviving option.
C38_SurvivingChosenKept ==
    [][\A raw \in ReasonerOutputs :
          (/\ Called("_stage2_build_booking")
           /\ schedule_data # None
           /\ C38_ChosenSurvives(schedule_data, raw)
           /\ Stage2BuildBooking(FALSE, raw)) =>
              /\ result_dict'.chosen # None
              /\ C38_Key(result_dict'.chosen) = C38_Key(raw.chosen)]_vars

\* what the code keeps: a chosen that equals a surviving option field by field,
\* canonical names included, is kept; any other is replaced by the first
\* surviving option, or by None when no option survives
C38_ChosenKeptWhenCanonical ==
    [][\A raw \in ReasonerOutputs :
          (/\ Called("_stage2_build_booking")
           /\ schedule_data # None
           /\ raw.chosen # None
           /\ Stage2BuildBooking(FALSE, raw)) =>
              LET valid == valid_opts(schedule_data, raw.options)
              IN IF \E i \in 1..Len(valid) : valid[i] = raw.chosen
                 THEN result_dict'.chosen = raw.chosen
                 ELSE IF valid # <<>> THEN result_dict'.chosen = valid[1]
                 ELSE result_dict'.chosen = None]_vars

\* a canonical chosen that is the second surviving option was kept
C38_Witness ==
    /\ last = [op |-> "_stage2_build_booking", msg |-> "ok"]
    /\ result_dict # None
    /\ Len(result_dict.options) = 2
    /\ result_dict.chosen = result_dict.options[2]


----------------------------------------------------------------------------
\* confirm_identity has just changed the confirmed identity of session s
C39_JustReconfirmed(s) ==
    /\ last = [op |-> "confirm_identity", msg |-> "reconfirmed"]
    /\ identity_state[s].identity_confirmed

\* C39: after confirm_identity changed the confirmed identity, latest_booking
\* stays empty and allow_finalize false until a schedule_appointment issued
\* after the change completes: a planner run that was started before the
\* change and ends after it does not install its result.
C39_StaleRunNotInstalled ==
    [][\A s \in IdentitySessions :
          (/\ C39_JustReconfirmed(s)
           /\ shared[s].booking_in_progress
           /\ Called("_run_booking")) =>
              /\ shared'[s].latest_booking = None
              /\ ~shared'[s].allow_finalize]_vars

\* what the code keeps: in the state the change leaves, the session has no
\* booking result and finalize is not allowed
C39_ReconfirmEmptiesResult ==
    \A s \in IdentitySessions :
       C39_JustReconfirmed(s) =>
          shared[s].latest_booking = None /\ ~shared[s].allow_finalize


----------------------------------------------------------------------------
\* the booking rows under the key K a booking_index names
C40_RowsOf(index) ==
    {b \in bookings :
        /\ b.hospital_code = index.hospital_code
        /\ b.doctor_name = index.doctor_name
        /\ b.date = index.date
        /\ b.slot_time = index.slot_time}

\* the visit rows of session s whose booking_index names a key
C40_IndexedVisits(s) ==
    {v \in visits : /\ v.session = s
                    /\ v.booking_index # None
                    /\ v.booking_index.slot_time # None}

C40_IndexIsChosenKey ==
    \A s \in FinalizeSessions :
       \A v \in C40_IndexedVisits(s) :
          /\ finalize_thread[s].latest_booking # None
          /\ finalize_thread[s].latest_booking.chosen # None
          /\ v.booking_index = C29_Index(finalize_thread[s].latest_booking.chosen)

\* a visit with an index whose booking the session's finalize did insert
C40_Witness ==
    \E s \in FinalizeSessions :
       \E v \in C40_IndexedVisits(s) :
          /\ C40_RowsOf(v.booking_index) # {}
          /\ finalize_thread[s].persist_info.ok

====
